---------------------------- MODULE Spec2Model ----------------------------
(***************************************************************************)
(* DoppelFlex avatar core: head mesh generation (head_mesh_generator.py),  *)
(* auto-rigging (auto_rig_routes.py) and the Mixamo skeleton table         *)
(* (utils/rigging.py), as state machines.                                  *)
(*                                                                         *)
(* Numbers.  The code computes in floating point; the model computes in    *)
(* fixed point on integers and says, at each definition, which unit it     *)
(* uses.  Python sequences are 0-based and so are all indices stored in    *)
(* the model (face indices, joint indices, node indices, parent_index):    *)
(* element i of a Python list is element i+1 of the TLA+ sequence.         *)
(***************************************************************************)
EXTENDS Integers, Sequences, FiniteSets, TLC

VARIABLES
    \* ---- parent-link traversal of the bone tables ----
    skTable,        \* "humanoid" | "mixamo" | "idle"
    skPath,         \* bones visited so far (0-based table positions), start first
    \* ---- auto_rig_mesh / compute_skinning_weights / build_rigged_gltf ----
    rpc,            \* position in the handler
    vertices,       \* mesh.vertices.tolist()
    faces,          \* mesh.faces.tolist()
    normals,        \* mesh.vertex_normals.tolist()
    bones,          \* sequence of [name, position, parent] in dict order
    weights,        \* weights[v][b], the (num_verts, num_bones) array
    bone_names,     \* list(bones.keys())
    gltf,           \* the dict built by build_rigged_gltf, or NoGltf
    response,       \* the JSON response of auto_rig_mesh, or NoResponse
    entry,          \* "handler": auto_rig_mesh; "direct": the functions called on their own
    argsort_ties,   \* the order numpy's argsort gives equal keys in this build
    \* ---- generate_full_head ----
    hpc,            \* position in generate_full_head
    landmarks,      \* face_landmarks.landmark
    resolution,     \* resolution
    use_depth,      \* use_depth
    depth_source,   \* what MiDaS and cv2.imread give for image_path
    tessellation,   \* the module's FACEMESH_TESSELATION
    face_points,    \* face_points
    face_faces,     \* face_faces
    back_verts,     \* back_verts
    back_faces,     \* back_faces
    all_verts,      \* all_verts
    all_faces,      \* all_faces
    stitch_faces,   \* stitch_faces
    mesh,           \* the trimesh.Trimesh returned
    started,        \* the steps begun so far, in order
    error,          \* the exception generate_full_head raised, or "none"
    \* ---- two requests in one process ----
    process,        \* what the requests share: the module-level data and the libraries
    reqs,           \* for each request, its arguments, position and locals
    \* ---- external_rigging_tool ----
    xpc,            \* position in external_rigging_tool
    glb_path,       \* the file glb_path names: whether it exists, its extension
    installed,      \* what each strategy meets in this environment for this file
    tried,          \* the strategies external_rigging_tool has called, in order
    outcome         \* what the call returned or raised, or NoOutcome

skVars == <<skTable, skPath>>
rigVars == <<rpc, vertices, faces, normals, bones, weights, bone_names, gltf, response,
            entry, argsort_ties>>
headVars == <<hpc, landmarks, resolution, use_depth, depth_source, tessellation,
             face_points, face_faces, back_verts, back_faces, all_verts, all_faces,
             stitch_faces, mesh, started, error>>
sharedVars == <<process, reqs>>
toolVars == <<xpc, glb_path, installed, tried, outcome>>
vars == <<skTable, skPath,
          rpc, vertices, faces, normals, bones, weights, bone_names, gltf, response,
          entry, argsort_ties,
          hpc, landmarks, resolution, use_depth, depth_source, tessellation,
          face_points, face_faces, back_verts, back_faces, all_verts, all_faces,
          stitch_faces, mesh, started, error,
          process, reqs,
          xpc, glb_path, installed, tried, outcome>>

-----------------------------------------------------------------------------
(* Helpers *)

Min(a, b) == IF a <= b THEN a ELSE b
Max(a, b) == IF a >= b THEN a ELSE b
Abs(a) == IF a >= 0 THEN a ELSE -a

\* a function on 1..n as the array of its values
Array(f) == f \o <<>>

\* seq[k] for the k in lo..hi with mask[k], in order
RECURSIVE KeepRange(_, _, _, _)
KeepRange(seq, mask, lo, hi) ==
    IF lo > hi THEN <<>>
    ELSE IF lo = hi THEN (IF mask[lo] THEN <<seq[lo]>> ELSE <<>>)
    ELSE KeepRange(seq, mask, lo, (lo + hi) \div 2)
             \o KeepRange(seq, mask, (lo + hi) \div 2 + 1, hi)

KeepRows(seq, mask, n) == KeepRange(seq, mask, 1, n)

RECURSIVE SumRange(_, _, _)
SumRange(s, lo, hi) ==
    IF lo > hi THEN 0
    ELSE IF lo = hi THEN s[lo]
    ELSE SumRange(s, lo, (lo + hi) \div 2) + SumRange(s, (lo + hi) \div 2 + 1, hi)

SumSeq(s) == SumRange(s, 1, Len(s))

\* floor of the square root, by bisection on lo..hi (lo*lo <= n < (hi+1)*(hi+1))
RECURSIVE IsqrtIn(_, _, _)
IsqrtIn(n, lo, hi) ==
    IF lo >= hi THEN lo
    ELSE LET mid == (lo + hi + 1) \div 2
         IN  IF mid * mid <= n THEN IsqrtIn(n, mid, hi) ELSE IsqrtIn(n, lo, mid - 1)

Isqrt(n) == IsqrtIn(n, 0, 46340)

None == "None"

-----------------------------------------------------------------------------
(* The bone tables *)

\* pos_ratio in hundredths of the bounding box
HUMANOID_SKELETON ==
    << [name |-> "Hips",          parent |-> None,            pos_ratio |-> <<50, 45, 50>>],
       [name |-> "Spine",         parent |-> "Hips",          pos_ratio |-> <<50, 52, 50>>],
       [name |-> "Spine1",        parent |-> "Spine",         pos_ratio |-> <<50, 58, 50>>],
       [name |-> "Spine2",        parent |-> "Spine1",        pos_ratio |-> <<50, 64, 50>>],
       [name |-> "Neck",          parent |-> "Spine2",        pos_ratio |-> <<50, 78, 50>>],
       [name |-> "Head",          parent |-> "Neck",          pos_ratio |-> <<50, 85, 50>>],
       [name |-> "HeadTop_End",   parent |-> "Head",          pos_ratio |-> <<50, 98, 50>>],
       [name |-> "LeftShoulder",  parent |-> "Spine2",        pos_ratio |-> <<58, 72, 50>>],
       [name |-> "LeftArm",       parent |-> "LeftShoulder",  pos_ratio |-> <<72, 70, 50>>],
       [name |-> "LeftForeArm",   parent |-> "LeftArm",       pos_ratio |-> <<82, 55, 50>>],
       [name |-> "LeftHand",      parent |-> "LeftForeArm",   pos_ratio |-> <<90, 42, 50>>],
       [name |-> "RightShoulder", parent |-> "Spine2",        pos_ratio |-> <<42, 72, 50>>],
       [name |-> "RightArm",      parent |-> "RightShoulder", pos_ratio |-> <<28, 70, 50>>],
       [name |-> "RightForeArm",  parent |-> "RightArm",      pos_ratio |-> <<18, 55, 50>>],
       [name |-> "RightHand",     parent |-> "RightForeArm",  pos_ratio |-> <<10, 42, 50>>],
       [name |-> "LeftUpLeg",     parent |-> "Hips",          pos_ratio |-> <<58, 42, 50>>],
       [name |-> "LeftLeg",       parent |-> "LeftUpLeg",     pos_ratio |-> <<58, 24, 50>>],
       [name |-> "LeftFoot",      parent |-> "LeftLeg",       pos_ratio |-> <<58, 4, 55>>],
       [name |-> "LeftToeBase",   parent |-> "LeftFoot",      pos_ratio |-> <<58, 1, 70>>],
       [name |-> "RightUpLeg",    parent |-> "Hips",          pos_ratio |-> <<42, 42, 50>>],
       [name |-> "RightLeg",      parent |-> "RightUpLeg",    pos_ratio |-> <<42, 24, 50>>],
       [name |-> "RightFoot",     parent |-> "RightLeg",      pos_ratio |-> <<42, 4, 55>>],
       [name |-> "RightToeBase",  parent |-> "RightFoot",     pos_ratio |-> <<42, 1, 70>>] >>

\* (name, parent_index, offset); offsets in hundredths
MIXAMO_SKELETON ==
    << <<"mixamorigHips",          -1, <<0, 95, 0>>>>,
       <<"mixamorigSpine",          0, <<0, 10, 0>>>>,
       <<"mixamorigSpine1",         1, <<0, 12, 0>>>>,
       <<"mixamorigSpine2",         2, <<0, 12, 0>>>>,
       <<"mixamorigNeck",           3, <<0, 15, 0>>>>,
       <<"mixamorigHead",           4, <<0, 12, 0>>>>,
       <<"mixamorigHeadTop_End",    5, <<0, 18, 0>>>>,
       <<"mixamorigLeftShoulder",   3, <<5, 12, 0>>>>,
       <<"mixamorigLeftArm",        7, <<12, 0, 0>>>>,
       <<"mixamorigLeftForeArm",    8, <<25, 0, 0>>>>,
       <<"mixamorigLeftHand",       9, <<22, 0, 0>>>>,
       <<"mixamorigRightShoulder",  3, <<-5, 12, 0>>>>,
       <<"mixamorigRightArm",      11, <<-12, 0, 0>>>>,
       <<"mixamorigRightForeArm",  12, <<-25, 0, 0>>>>,
       <<"mixamorigRightHand",     13, <<-22, 0, 0>>>>,
       <<"mixamorigLeftUpLeg",      0, <<9, -5, 0>>>>,
       <<"mixamorigLeftLeg",       15, <<0, -42, 0>>>>,
       <<"mixamorigLeftFoot",      16, <<0, -40, 0>>>>,
       <<"mixamorigLeftToeBase",   17, <<0, -3, 12>>>>,
       <<"mixamorigRightUpLeg",     0, <<-9, -5, 0>>>>,
       <<"mixamorigRightLeg",      19, <<0, -42, 0>>>>,
       <<"mixamorigRightFoot",     20, <<0, -40, 0>>>>,
       <<"mixamorigRightToeBase",  21, <<0, -3, 12>>>> >>


\* 0-based position of the bone called `name` in HUMANOID_SKELETON, -1 when it
\* is None or no key of the dict (`if parent and parent in bones`)
HumanoidIndex(name) ==
    IF \E i \in 1..Len(HUMANOID_SKELETON) : HUMANOID_SKELETON[i].name = name
    THEN (CHOOSE i \in 1..Len(HUMANOID_SKELETON) : HUMANOID_SKELETON[i].name = name) - 1
    ELSE -1

\* "parent" of the bone at 0-based position i of HUMANOID_SKELETON
HumanoidParent(i) == HUMANOID_SKELETON[i + 1].parent

\* Spine2's parent_index typed 4 (Neck, its own child) for 2
MixamoParentForward(i) == IF i = 3 THEN 4 ELSE MIXAMO_SKELETON[i + 1][2]

\* parent_index of the bone at 0-based position i of MIXAMO_SKELETON
MixamoParent(i) == MIXAMO_SKELETON[i + 1][2]

\* 0-based position of the parent of bone i (0-based), -1 for a bone without one
ParentIndex(table, i) ==
    IF table = "humanoid" THEN HumanoidIndex(HumanoidParent(i))
    ELSE MixamoParent(i)

TableLen(table) ==
    IF table = "humanoid" THEN Len(HUMANOID_SKELETON) ELSE Len(MIXAMO_SKELETON)

-----------------------------------------------------------------------------
(* Idle values of the variables a specification does not use *)

NoGltf == [kind |-> "none"]
NoResponse == [kind |-> "none"]

SkelIdle == skTable = "idle" /\ skPath = <<>>

NoProcess == [kind |-> "none"]
SharedIdle == process = NoProcess /\ reqs = <<>>

NoFile == [exists |-> FALSE, ext |-> ""]
NoTools == [blender |-> "none", pygltflib |-> "none", trimesh |-> "none"]
NoOutcome == [kind |-> "none"]
ToolIdle ==
    /\ xpc = "idle" /\ glb_path = NoFile /\ installed = NoTools
    /\ tried = <<>> /\ outcome = NoOutcome

RigIdle ==
    /\ rpc = "idle"
    /\ vertices = <<>> /\ faces = <<>> /\ normals = <<>>
    /\ bones = <<>> /\ weights = <<>> /\ bone_names = <<>>
    /\ gltf = NoGltf /\ response = NoResponse
    /\ entry = "idle" /\ argsort_ties = "low"

NoTessellation == [available |-> FALSE, edges |-> {}]
NoDepthSource == [outcome |-> "none"]
NoMesh == [kind |-> "none"]

HeadIdle ==
    /\ hpc = "idle"
    /\ landmarks = <<>> /\ resolution = 0 /\ use_depth = FALSE
    /\ depth_source = NoDepthSource /\ tessellation = NoTessellation
    /\ face_points = <<>> /\ face_faces = <<>>
    /\ back_verts = <<>> /\ back_faces = <<>>
    /\ all_verts = <<>> /\ all_faces = <<>>
    /\ stitch_faces = <<>> /\ mesh = NoMesh
    /\ started = <<>> /\ error = "none"

-----------------------------------------------------------------------------
(* SpecSkel: following parent links through a bone table.  The code does    *)
(* this whenever it places a bone relative to its parent: a bone's world    *)
(* transform is world_transforms[parent_idx] @ local, that of its parent    *)
(* the same, up to the bone with parent_idx < 0.                            *)

SkelInit ==
    /\ skTable \in {"humanoid", "mixamo"}
    /\ \E start \in 0..(TableLen(skTable) - 1) : skPath = <<start>>
    /\ RigIdle
    /\ HeadIdle
    /\ SharedIdle
    /\ ToolIdle

\* one parent link: from the last bone of the path to its parent.  The path
\* is cut at one more than the table's length, which a walk that revisits
\* no bone never reaches.
SkelParentStep ==
    /\ skTable \in {"humanoid", "mixamo"}
    /\ Len(skPath) <= TableLen(skTable)
    /\ LET cur == skPath[Len(skPath)]
           p == ParentIndex(skTable, cur)
       IN  /\ p >= 0
           /\ p < TableLen(skTable)
           /\ skPath' = Append(skPath, p)
    /\ UNCHANGED <<skTable, rigVars, headVars, sharedVars, toolVars>>

SkelNext == SkelParentStep

SpecSkel == SkelInit /\ [][SkelNext]_vars

\* The elements of a sequence are pairwise different
NoRepeat(s) == \A i, j \in 1..Len(s) : i # j => s[i] # s[j]

\* C9: each bone table is one rooted tree listed parent-before-child: exactly
\* one bone has no parent (None in HUMANOID_SKELETON, a negative parent_index
\* in MIXAMO_SKELETON), every other bone's parent is a bone at an earlier
\* position of the table, and a walk along parent links from any bone visits
\* no bone twice and can only end at the root.
C9_BoneTablesRootedTree ==
    /\ Cardinality({i \in 0..(Len(HUMANOID_SKELETON) - 1) : HumanoidParent(i) = None}) = 1
    /\ \A i \in 0..(Len(HUMANOID_SKELETON) - 1) :
          HumanoidParent(i) # None =>
              /\ HumanoidIndex(HumanoidParent(i)) >= 0
              /\ HumanoidIndex(HumanoidParent(i)) < i
    /\ \A i, j \in 1..Len(HUMANOID_SKELETON) :
          i # j => HUMANOID_SKELETON[i].name # HUMANOID_SKELETON[j].name
    /\ Cardinality({i \in 0..(Len(MIXAMO_SKELETON) - 1) : MixamoParent(i) < 0}) = 1
    /\ \A i \in 0..(Len(MIXAMO_SKELETON) - 1) :
          MixamoParent(i) >= 0 => MixamoParent(i) < i
    /\ skTable \in {"humanoid", "mixamo"} =>
          /\ NoRepeat(skPath)
          /\ Len(skPath) <= TableLen(skTable)
          /\ LET last == skPath[Len(skPath)]
             IN  \/ /\ ParentIndex(skTable, last) >= 0
                    /\ ParentIndex(skTable, last) < last
                 \/ /\ ParentIndex(skTable, last) < 0
                    /\ \A i \in 0..(TableLen(skTable) - 1) :
                          ParentIndex(skTable, i) < 0 => i = last

\* the walk from LeftHand (position 10) has reached Hips over its 7 ancestors
C9_Witness ==
    /\ skTable = "humanoid"
    /\ Len(skPath) = 8
    /\ skPath[1] = 10
    /\ skPath[8] = 0
    /\ HumanoidParent(skPath[8]) = None

-----------------------------------------------------------------------------
(* Auto-rigging: auto_rig_routes.py                                         *)
(*                                                                          *)
(* Units.  A vertex coordinate is an integer number of 1e-4 world units; a  *)
(* bone position and a vertex-to-bone distance are integers in 1e-6 world   *)
(* units (a pos_ratio is in hundredths, so bbox_min + bbox_size * ratio is  *)
(* exact there).  1/distance is InvOne \div distance, a float64 weight is   *)
(* an integer number of 1/WOne, a float32 weight one of 1/F32One.           *)

MaxVerts == 3        \* most vertices of an uploaded mesh
MaxFaces == 2        \* most faces of an uploaded mesh
MaxBones == 5        \* most bones of a skeleton passed directly to the functions
InvOne == 20000      \* fixed-point one of 1/distance
WOne == 100000       \* fixed-point one of a float64 weight
F32One == 10000      \* fixed-point one of a float32 weight

EPS == 1             \* np.maximum(dists, 1e-6), in 1e-6 units
MAX_INFLUENCES == 4  \* max_influences=4

\* the vertices a mesh is made of
RigGrid == { <<0, 0, 0>>, <<10, 20, 4>>, <<5, 9, 2>> }

\* the first f triangles of a fan around vertex 0
FanFaces(f) == [k \in 1..f |-> <<0, k, k + 1>>]

SeqMin(s) == CHOOSE x \in {s[i] : i \in 1..Len(s)} : \A i \in 1..Len(s) : x <= s[i]
SeqMax(s) == CHOOSE x \in {s[i] : i \in 1..Len(s)} : \A i \in 1..Len(s) : x >= s[i]
Column(vs, k) == Array([i \in 1..Len(vs) |-> vs[i][k]])

\* verts.min(axis=0), verts.max(axis=0)
BboxMin(vs) == [k \in 1..3 |-> SeqMin(Column(vs, k))]
BboxMax(vs) == [k \in 1..3 |-> SeqMax(Column(vs, k))]

\* a bone placed at bbox_size * ratio, bbox_min left out
EstimatedBoneFromOrigin(bone_def, vs) ==
    LET bbox_size == [k \in 1..3 |-> BboxMax(vs)[k] - BboxMin(vs)[k]]
    IN  [name |-> bone_def.name,
         position |-> [k \in 1..3 |-> bbox_size[k] * bone_def.pos_ratio[k]],
         parent |-> bone_def.parent]

\* the bone estimate_skeleton_from_mesh makes of one entry of the table
EstimatedBone(bone_def, vs) ==
    LET bbox_min == BboxMin(vs)
        bbox_size == [k \in 1..3 |-> BboxMax(vs)[k] - bbox_min[k]]
    IN  [name |-> bone_def.name,
         position |-> [k \in 1..3 |-> 100 * bbox_min[k] + bbox_size[k] * bone_def.pos_ratio[k]],
         parent |-> bone_def.parent]

\* the bones that have a parent only: the root is left out
EstimateWithoutRoot(vs) ==
    [i \in 1..(Len(HUMANOID_SKELETON) - 1) |-> EstimatedBone(HUMANOID_SKELETON[i + 1], vs)]

\* the loop over `table`, the module's HUMANOID_SKELETON as the call finds it
EstimateFromTable(table, vs) ==
    [i \in 1..Len(table) |-> EstimatedBone(table[i], vs)]

estimate_skeleton_from_mesh(vs) == EstimateFromTable(HUMANOID_SKELETON, vs)

\* np.argsort(keys)[:k]: the 0-based positions of the k smallest keys, smallest
\* first.  numpy's default sort is not stable: equal keys come out in an order
\* the build decides, lowest position first ("low") or highest first ("high").
RECURSIVE ArgsortTake(_, _, _, _)
ArgsortTake(keys, k, taken, ties) ==
    IF Len(taken) >= k \/ Len(taken) >= Len(keys) THEN taken
    ELSE LET rest == {i \in 0..(Len(keys) - 1) : \A j \in 1..Len(taken) : taken[j] # i}
             m == CHOOSE i \in rest : \A j \in rest :
                      \/ keys[i + 1] < keys[j + 1]
                      \/ /\ keys[i + 1] = keys[j + 1]
                         /\ IF ties = "low" THEN i <= j ELSE i >= j
         IN  ArgsortTake(keys, k, Append(taken, m), ties)

Argsort(keys, k, ties) == ArgsortTake(keys, k, <<>>, ties)

\* np.sqrt(np.sum(diff ** 2)): distance of vertex v (1e-4 units) to a bone
\* position (1e-6 units), in 1e-6 units
Distance(v, pos) ==
    Isqrt((100 * v[1] - pos[1]) * (100 * v[1] - pos[1])
        + (100 * v[2] - pos[2]) * (100 * v[2] - pos[2])
        + (100 * v[3] - pos[3]) * (100 * v[3] - pos[3]))

\* the clamped distance itself, not its inverse
DistNotInverted(d) == Max(d, EPS)

\* 1.0 / np.maximum(dists, 1e-6)
InvDist(d) == InvOne \div Max(d, EPS)

\* every influence divided by the sum over all bones, not over the closest ones
WeightRowAllBones(v, bs, ties) ==
    LET distances == [b \in 1..Len(bs) |-> Distance(v, bs[b].position)]
        closest == Argsort(distances, MAX_INFLUENCES, ties)
        total == SumSeq([b \in 1..Len(bs) |-> InvDist(distances[b])])
    IN  [b \in 1..Len(bs) |->
            IF (\E j \in 1..Len(closest) : closest[j] = b - 1) /\ total > 0
            THEN (InvDist(distances[b]) * WOne) \div total
            ELSE 0]

\* one row of `weights`: the loop body of compute_skinning_weights for vertex v
WeightRow(v, bs, ties) ==
    LET distances == [b \in 1..Len(bs) |-> Distance(v, bs[b].position)]
        closest == Argsort(distances, MAX_INFLUENCES, ties)
        inv_dists == [j \in 1..Len(closest) |-> InvDist(distances[closest[j] + 1])]
        total == SumSeq(inv_dists)
    IN  [b \in 1..Len(bs) |->
            IF (\E j \in 1..Len(closest) : closest[j] = b - 1) /\ total > 0
            THEN (InvDist(distances[b]) * WOne) \div total
            ELSE 0]

\* compute_skinning_weights returns (weights, bone_names)
compute_skinning_weights(vs, bs, ties) ==
    [weights |-> [v \in 1..Len(vs) |-> WeightRow(vs[v], bs, ties)],
     bone_names |-> [b \in 1..Len(bs) |-> bs[b].name]]

(* build_rigged_gltf.  buffer_data is the sequence of the numbers packed,  *)
(* each with its component type; len(buffer_data) is the sum of their       *)
(* sizes in bytes.                                                          *)

ItemSize(t) == IF t = "u16" THEN 2 ELSE 4       \* "f32", "u32": 4 bytes

ByteLen(buf) == SumSeq(Array([i \in 1..Len(buf) |-> ItemSize(buf[i].t)]))

\* array.flatten() of a list of rows
RECURSIVE Flatten(_)
Flatten(rows) == IF rows = <<>> THEN <<>> ELSE Head(rows) \o Flatten(Tail(rows))

\* array.tobytes() of a flat array of component type t
ToBytes(flat, t) == [i \in 1..Len(flat) |-> [t |-> t, v |-> flat[i]]]

\* the length taken as len(buffer_data) after the append, the offset not subtracted
PackStaleLength(buffer_data, bytes) ==
    [offset |-> ByteLen(buffer_data),
     data   |-> buffer_data \o bytes,
     length |-> ByteLen(buffer_data \o bytes)]

\* x_offset = len(buffer_data); buffer_data += bytes; x_length = len(buffer_data) - x_offset
Pack(buffer_data, bytes) ==
    [offset |-> ByteLen(buffer_data),
     data   |-> buffer_data \o bytes,
     length |-> ByteLen(buffer_data \o bytes) - ByteLen(buffer_data)]

\* np.float32 of a float64 weight
F32(w) == (w * F32One) \div WOne

\* np.nonzero(row)[0]: the 0-based positions of the nonzero entries, ascending
Nonzero(row) ==
    LET IsNonzero(b) == row[b + 1] # 0
    IN  SelectSeq([i \in 1..Len(row) |-> i - 1], IsNonzero)

\* the nonzero bones by ascending weight: the sort key not negated
SortedBonesAscending(row, ties) ==
    LET nonzero == Nonzero(row)
        order == Argsort([j \in 1..Len(nonzero) |-> row[nonzero[j] + 1]], 4, ties)
    IN  [j \in 1..Len(order) |-> nonzero[order[j] + 1]]

\* nonzero[np.argsort(-weights[v, nonzero])][:4]
SortedBones(row, ties) ==
    LET nonzero == Nonzero(row)
        order == Argsort([j \in 1..Len(nonzero) |-> 0 - row[nonzero[j] + 1]], 4, ties)
    IN  [j \in 1..Len(order) |-> nonzero[order[j] + 1]]

\* joint_indices[v]: 4 uint16
JointIndices(row, ties) ==
    LET sorted_bones == SortedBones(row, ties)
    IN  [j \in 1..4 |-> IF j <= Len(sorted_bones) THEN sorted_bones[j] ELSE 0]

\* joint_weights[v]: 4 float32, divided by their sum when it is positive
JointWeights(row, ties) ==
    LET sorted_bones == SortedBones(row, ties)
        raw == [j \in 1..4 |-> IF j <= Len(sorted_bones)
                               THEN F32(row[sorted_bones[j] + 1]) ELSE 0]
        total == SumSeq(raw)
    IN  IF total > 0 THEN [j \in 1..4 |-> (raw[j] * F32One) \div total] ELSE raw

\* bones[name]
BoneByName(bs, name) == bs[CHOOSE i \in 1..Len(bs) : bs[i].name = name]
InBones(bs, name) == \E i \in 1..Len(bs) : bs[i].name = name

\* ibm.flatten() of np.eye(4) with ibm[0,3], ibm[1,3], ibm[2,3] = -pos: the
\* rows of the matrix one after the other (1.0 is 1000000 in 1e-6 units)
IbmFlat(pos) ==
    << 1000000, 0, 0, 0 - pos[1],
       0, 1000000, 0, 0 - pos[2],
       0, 0, 1000000, 0 - pos[3],
       0, 0, 0, 1000000 >>

\* the first bone node
bone_node_offset == 2

\* bone_to_node[bone_names[i]] for the 0-based i
BoneToNode(i) == bone_node_offset + i

\* bone_to_node[name]
BoneToNodeByName(names, name) ==
    BoneToNode((CHOOSE i \in 1..Len(names) : names[i] = name) - 1)

\* the node built for bone_name
BoneNode(bs, names, bone_name) ==
    LET pos == BoneByName(bs, bone_name).position
        parent == BoneByName(bs, bone_name).parent
        rel_pos == IF parent # None /\ InBones(bs, parent)
                   THEN [k \in 1..3 |-> pos[k] - BoneByName(bs, parent).position[k]]
                   ELSE pos
        IsChild(other_name) == BoneByName(bs, other_name).parent = bone_name
        child_names == SelectSeq(names, IsChild)
    IN  [name |-> bone_name,
         translation |-> rel_pos,
         children |-> [c \in 1..Len(child_names) |-> BoneToNodeByName(names, child_names[c])]]

\* the index accessor counting faces, not indices
AccessorsFaceCount(num_verts, indices, num_bones) ==
    << [bufferView |-> 0, componentType |-> 5126, count |-> num_verts, type |-> "VEC3"],
       [bufferView |-> 1, componentType |-> 5126, count |-> num_verts, type |-> "VEC3"],
       [bufferView |-> 2, componentType |-> 5125, count |-> Len(indices) \div 3, type |-> "SCALAR"],
       [bufferView |-> 3, componentType |-> 5123, count |-> num_verts, type |-> "VEC4"],
       [bufferView |-> 4, componentType |-> 5126, count |-> num_verts, type |-> "VEC4"],
       [bufferView |-> 5, componentType |-> 5126, count |-> num_bones, type |-> "MAT4"] >>

\* "accessors": positions, normals, indices, joint indices, joint weights,
\* inverse bind matrices
Accessors(num_verts, indices, num_bones) ==
    << [bufferView |-> 0, componentType |-> 5126, count |-> num_verts, type |-> "VEC3"],
       [bufferView |-> 1, componentType |-> 5126, count |-> num_verts, type |-> "VEC3"],
       [bufferView |-> 2, componentType |-> 5125, count |-> Len(indices), type |-> "SCALAR"],
       [bufferView |-> 3, componentType |-> 5123, count |-> num_verts, type |-> "VEC4"],
       [bufferView |-> 4, componentType |-> 5126, count |-> num_verts, type |-> "VEC4"],
       [bufferView |-> 5, componentType |-> 5126, count |-> num_bones, type |-> "MAT4"] >>

\* build_rigged_gltf(vertices, faces, bones, weights, bone_names, normals);
\* `ties` is the order numpy's argsort gives equal weights.  "children" of a
\* node is <<>> where the code leaves the key out; normals=None is <<>> (a mesh
\* that gets here has a vertex, so its list of normals is not empty).
build_rigged_gltf(vs, fs, bs, ws, names, ns, ties) ==
    LET num_verts == Len(vs)
        norms == IF ns = <<>> THEN [v \in 1..Len(vs) |-> <<0, 0, 0>>] ELSE ns
        indices == Flatten(fs)
        num_bones == Len(names)
        joint_indices == [v \in 1..num_verts |-> JointIndices(ws[v], ties)]
        joint_weights == [v \in 1..num_verts |-> JointWeights(ws[v], ties)]
        pos == Pack(<<>>, ToBytes(Flatten(vs), "f32"))
        norm == Pack(pos.data, ToBytes(Flatten(norms), "f32"))
        idx == Pack(norm.data, ToBytes(indices, "u32"))
        joints == Pack(idx.data, ToBytes(Flatten(joint_indices), "u16"))
        wts == Pack(joints.data, ToBytes(Flatten(joint_weights), "f32"))
        ibm_data == [i \in 1..num_bones |-> IbmFlat(BoneByName(bs, names[i]).position)]
        ibm == Pack(wts.data, ToBytes(Flatten(ibm_data), "f32"))
        buffer_data == ibm.data
        joint_node_indices == [i \in 1..num_bones |-> BoneToNode(i - 1)]
        bone_nodes == [i \in 1..num_bones |-> BoneNode(bs, names, names[i])]
        mesh_node == [name |-> "AvatarMesh", mesh |-> 0, skin |-> 0, children |-> <<>>]
        root_bone_idx == IF \E i \in 1..num_bones : names[i] = "Hips"
                         THEN BoneToNodeByName(names, "Hips")
                         ELSE bone_node_offset
        all_nodes == <<mesh_node>> \o bone_nodes
    IN  [kind |-> "gltf",
         scene |-> 0,
         scenes |-> << [nodes |-> <<0, root_bone_idx>>] >>,
         nodes |-> all_nodes,
         meshes |-> << [name |-> "AvatarMesh",
                        POSITION |-> 0, NORMAL |-> 1, JOINTS_0 |-> 3, WEIGHTS_0 |-> 4,
                        indices |-> 2, material |-> 0] >>,
         skins |-> << [name |-> "AvatarSkin",
                       inverseBindMatrices |-> 5,
                       skeleton |-> root_bone_idx,
                       joints |-> joint_node_indices] >>,
         accessors |-> Accessors(num_verts, indices, num_bones),
         pos_min |-> BboxMin(vs),
         pos_max |-> BboxMax(vs),
         bufferViews |-> <<
             [buffer |-> 0, byteOffset |-> pos.offset, byteLength |-> pos.length],
             [buffer |-> 0, byteOffset |-> norm.offset, byteLength |-> norm.length],
             [buffer |-> 0, byteOffset |-> idx.offset, byteLength |-> idx.length],
             [buffer |-> 0, byteOffset |-> joints.offset, byteLength |-> joints.length],
             [buffer |-> 0, byteOffset |-> wts.offset, byteLength |-> wts.length],
             [buffer |-> 0, byteOffset |-> ibm.offset, byteLength |-> ibm.length] >>,
         buffers |-> << [data |-> buffer_data, byteLength |-> ByteLen(buffer_data)] >>]

-----------------------------------------------------------------------------
(* SpecRig: the handler auto_rig_mesh step by step, and the two functions   *)
(* compute_skinning_weights and build_rigged_gltf applied to a skeleton of  *)
(* fewer bones (the first bones of the estimated one).                      *)

\* the meshes trimesh.load returns: 1..MaxVerts vertices, a fan of faces
Meshes ==
    { [vertices |-> vs, faces |-> FanFaces(f)] :
        vs \in UNION { [1..n -> RigGrid] : n \in 1..MaxVerts },
        f \in 0..MaxFaces }

ValidMesh(m) == Len(m.faces) <= Max(Len(m.vertices) - 2, 0)

\* mesh.vertex_normals.tolist(): one vector for each vertex
VertexNormals(vs) == [v \in 1..Len(vs) |-> <<0, 0, 100>>]

RigInit ==
    /\ rpc = "start"
    /\ vertices = <<>> /\ faces = <<>> /\ normals = <<>>
    /\ bones = <<>> /\ weights = <<>> /\ bone_names = <<>>
    /\ gltf = NoGltf /\ response = NoResponse
    /\ entry = "none"
    /\ argsort_ties \in {"low", "high"}
    /\ SkelIdle
    /\ SharedIdle
    /\ ToolIdle
    /\ HeadIdle

\* `if "mesh" not in request.files`
RigNoFile ==
    /\ rpc = "start"
    /\ rpc' = "responded"
    /\ entry' = "handler"
    /\ response' = [kind |-> "error", status |-> 400, error |-> "No mesh file provided"]
    /\ UNCHANGED <<vertices, faces, normals, bones, weights, bone_names, gltf, argsort_ties>>
    /\ UNCHANGED <<toolVars, sharedVars, skVars, headVars>>

\* `import trimesh` or trimesh.load raises
RigLoadFails ==
    /\ rpc = "start"
    /\ rpc' = "responded"
    /\ entry' = "handler"
    /\ \E exc \in {"ImportError", "Exception"} :
          response' = [kind |-> "error", status |-> 500,
                       error |-> IF exc = "ImportError" THEN "trimesh not installed"
                                 ELSE "Auto-rig failed"]
    /\ UNCHANGED <<vertices, faces, normals, bones, weights, bone_names, gltf, argsort_ties>>
    /\ UNCHANGED <<toolVars, sharedVars, skVars, headVars>>

\* `if mesh is None or len(mesh.vertices) == 0`
RigEmptyMesh ==
    /\ rpc = "start"
    /\ rpc' = "responded"
    /\ entry' = "handler"
    /\ response' = [kind |-> "error", status |-> 400,
                    error |-> "Could not parse mesh or mesh is empty"]
    /\ UNCHANGED <<vertices, faces, normals, bones, weights, bone_names, gltf, argsort_ties>>
    /\ UNCHANGED <<toolVars, sharedVars, skVars, headVars>>

\* the mesh is loaded: vertices, faces, normals
RigLoad ==
    /\ rpc = "start"
    /\ \E m \in Meshes :
          /\ ValidMesh(m)
          /\ vertices' = m.vertices
          /\ faces' = m.faces
          /\ normals' = VertexNormals(m.vertices)
    /\ rpc' = "loaded"
    /\ entry' = "handler"
    /\ UNCHANGED <<bones, weights, bone_names, gltf, response, argsort_ties>>
    /\ UNCHANGED <<toolVars, sharedVars, skVars, headVars>>

\* bones = estimate_skeleton_from_mesh(vertices)
RigEstimateSkeleton ==
    /\ rpc = "loaded"
    /\ bones' = estimate_skeleton_from_mesh(vertices)
    /\ rpc' = "estimated"
    /\ UNCHANGED <<vertices, faces, normals, weights, bone_names, gltf, response,
                   entry, argsort_ties>>
    /\ UNCHANGED <<toolVars, sharedVars, skVars, headVars>>

\* the functions called with a mesh and the first n bones of its skeleton,
\* with or without normals
RigDirectCall ==
    /\ rpc = "start"
    /\ \E m \in Meshes, n \in 0..MaxBones, with_normals \in BOOLEAN :
          /\ ValidMesh(m)
          /\ vertices' = m.vertices
          /\ faces' = m.faces
          /\ normals' = IF with_normals THEN VertexNormals(m.vertices) ELSE <<>>
          /\ bones' = SubSeq(estimate_skeleton_from_mesh(m.vertices), 1, n)
    /\ rpc' = "estimated"
    /\ entry' = "direct"
    /\ UNCHANGED <<weights, bone_names, gltf, response, argsort_ties>>
    /\ UNCHANGED <<toolVars, sharedVars, skVars, headVars>>

\* weights, bone_names = compute_skinning_weights(vertices, bones)
RigComputeWeights ==
    /\ rpc = "estimated"
    /\ LET r == compute_skinning_weights(vertices, bones, argsort_ties)
       IN  /\ weights' = r.weights
           /\ bone_names' = r.bone_names
    /\ rpc' = "weighted"
    /\ UNCHANGED <<vertices, faces, normals, bones, gltf, response, entry, argsort_ties>>
    /\ UNCHANGED <<toolVars, sharedVars, skVars, headVars>>

\* gltf = build_rigged_gltf(vertices, faces, bones, weights, bone_names, normals)
RigBuildGltf ==
    /\ rpc = "weighted"
    /\ gltf' = build_rigged_gltf(vertices, faces, bones, weights, bone_names, normals,
                                 argsort_ties)
    /\ rpc' = "built"
    /\ UNCHANGED <<vertices, faces, normals, bones, weights, bone_names, response,
                   entry, argsort_ties>>
    /\ UNCHANGED <<toolVars, sharedVars, skVars, headVars>>

\* a response with the asset sent before build_rigged_gltf has run
RigRespondBeforeBuild ==
    /\ rpc = "weighted"
    /\ entry = "handler"
    /\ response' = [kind |-> "ok", status |-> 200, success |-> TRUE,
                    gltf |-> gltf,
                    bone_count |-> Len(bone_names),
                    vertex_count |-> Len(vertices),
                    face_count |-> Len(faces),
                    bones |-> bone_names]
    /\ rpc' = "responded"
    /\ UNCHANGED <<vertices, faces, normals, bones, weights, bone_names, gltf,
                   entry, argsort_ties>>
    /\ UNCHANGED <<toolVars, sharedVars, skVars, headVars>>

\* return jsonify({...})
RigRespond ==
    /\ rpc = "built"
    /\ entry = "handler"
    /\ response' = [kind |-> "ok", status |-> 200, success |-> TRUE,
                    gltf |-> gltf,
                    bone_count |-> Len(bone_names),
                    vertex_count |-> Len(vertices),
                    face_count |-> Len(faces),
                    bones |-> bone_names]
    /\ rpc' = "responded"
    /\ UNCHANGED <<vertices, faces, normals, bones, weights, bone_names, gltf,
                   entry, argsort_ties>>
    /\ UNCHANGED <<toolVars, sharedVars, skVars, headVars>>

\* `except Exception as e`: estimate_skeleton_from_mesh, compute_skinning_weights,
\* build_rigged_gltf or jsonify raises (MemoryError, say) and the handler
\* answers with the message alone; what was computed so far stays in locals
RigStageRaises ==
    /\ rpc \in {"loaded", "estimated", "weighted", "built"}
    /\ entry = "handler"
    /\ response' = [kind |-> "error", status |-> 500, error |-> "Auto-rig failed"]
    /\ rpc' = "responded"
    /\ UNCHANGED <<vertices, faces, normals, bones, weights, bone_names, gltf,
                   entry, argsort_ties>>
    /\ UNCHANGED <<toolVars, sharedVars, skVars, headVars>>

RigNext ==
    \/ RigNoFile
    \/ RigLoadFails
    \/ RigEmptyMesh
    \/ RigLoad
    \/ RigEstimateSkeleton
    \/ RigDirectCall
    \/ RigComputeWeights
    \/ RigBuildGltf
    \/ RigStageRaises
    \/ RigRespond

SpecRig == RigInit /\ [][RigNext]_vars

-----------------------------------------------------------------------------
(* Claims about the rigged asset *)

Built == gltf.kind = "gltf"

\* C5: every node index the asset refers to (the scene's nodes, skin.joints,
\* skin.skeleton, every node's children) is an index into its nodes array, the
\* node at skin.joints[i] is named bone_names[i], and skin.skeleton is Hips.
C5_ReferentialConsistency ==
    Built =>
        LET IsNode(i) == i >= 0 /\ i < Len(gltf.nodes)
            skin == gltf.skins[1]
        IN  /\ \A k \in 1..Len(gltf.scenes[1].nodes) : IsNode(gltf.scenes[1].nodes[k])
            /\ \A k \in 1..Len(skin.joints) : IsNode(skin.joints[k])
            /\ IsNode(skin.skeleton)
            /\ \A n \in 1..Len(gltf.nodes) :
                  \A k \in 1..Len(gltf.nodes[n].children) : IsNode(gltf.nodes[n].children[k])
            /\ \A k \in 1..Len(skin.joints) :
                  gltf.nodes[skin.joints[k] + 1].name = bone_names[k]
            /\ (\E k \in 1..Len(bone_names) : bone_names[k] = "Hips")
                  => gltf.nodes[skin.skeleton + 1].name = "Hips"

\* C6: the six bufferViews are laid end to end from offset 0 (so none
\* overlaps another), none ends after the buffer, and the declared byteLength
\* is the number of bytes packed: 12V + 12V + 12F + 8V + 16V + 64B.
C6_BufferLayout ==
    Built =>
        LET bv == gltf.bufferViews
            V == Len(vertices)
            F == Len(faces)
            B == Len(bone_names)
        IN  /\ Len(bv) = 6
            /\ bv[1].byteOffset = 0
            /\ \A i \in 1..5 : bv[i + 1].byteOffset = bv[i].byteOffset + bv[i].byteLength
            /\ \A i \in 1..6 : bv[i].byteLength >= 0
            /\ \A i \in 1..6 : bv[i].byteOffset + bv[i].byteLength <= gltf.buffers[1].byteLength
            /\ <<bv[1].byteLength, bv[2].byteLength, bv[3].byteLength,
                 bv[4].byteLength, bv[5].byteLength, bv[6].byteLength>>
                 = <<12 * V, 12 * V, 12 * F, 8 * V, 16 * V, 64 * B>>
            /\ gltf.buffers[1].byteLength = ByteLen(gltf.buffers[1].data)
            /\ gltf.buffers[1].byteLength = 48 * V + 12 * F + 64 * B

\* a mesh of 3 vertices and 1 face with the 23 bones: views of 36, 36, 12, 24,
\* 48 and 1472 bytes
C6_Witness ==
    /\ Built
    /\ Len(vertices) = 3 /\ Len(faces) = 1 /\ Len(bone_names) = 23
    /\ gltf.bufferViews[6].byteOffset = 156
    /\ gltf.buffers[1].byteLength = 1628

\* C7: the counts read back from the asset are those of the input: position
\* accessor count = vertices, index accessor count = 3 * faces, bone nodes =
\* bones, len(skin.joints) = inverse-bind accessor count = bones, each count
\* filling its bufferView; and the response's vertex_count, face_count and
\* bones agree.
C7_CountsRoundTrip ==
    /\ Built =>
          LET acc == gltf.accessors
              bv == gltf.bufferViews
              bone_nodes == {n \in 1..Len(gltf.nodes) :
                               \E k \in 1..Len(bone_names) : gltf.nodes[n].name = bone_names[k]}
          IN  /\ acc[1].count = Len(vertices)
              /\ acc[3].count = 3 * Len(faces)
              /\ Cardinality(bone_nodes) = Len(bones)
              /\ Len(gltf.nodes) = 1 + Len(bones)
              /\ Len(gltf.skins[1].joints) = Len(bones)
              /\ acc[6].count = Len(bones)
              /\ bv[acc[1].bufferView + 1].byteLength = 12 * acc[1].count
              /\ bv[acc[3].bufferView + 1].byteLength = 4 * acc[3].count
              /\ bv[acc[6].bufferView + 1].byteLength = 64 * acc[6].count
    /\ response.kind = "ok" =>
          /\ response.vertex_count = response.gltf.accessors[1].count
          /\ 3 * response.face_count = response.gltf.accessors[3].count
          /\ Len(response.bones) = response.gltf.accessors[6].count
          /\ response.bone_count = Len(response.gltf.skins[1].joints)

\* the handler has answered for a mesh of 3 vertices and 1 face
C7_Witness ==
    /\ response.kind = "ok"
    /\ response.vertex_count = 3
    /\ response.face_count = 1
    /\ response.gltf.accessors[3].count = 3

WeightsComputed == rpc \in {"weighted", "built", "responded"} /\ weights # <<>>

\* C8: every weight is non-negative; with at least one bone every vertex's
\* weights sum to 1 within 1e-4, with none they sum to 0.
C8_WeightsNormalized ==
    WeightsComputed =>
        \A v \in 1..Len(weights) :
            /\ \A b \in 1..Len(weights[v]) : weights[v][b] >= 0
            /\ Len(weights[v]) = Len(bones)
            /\ Len(bones) >= 1 => Abs(SumSeq(weights[v]) - WOne) <= WOne \div 10000
            /\ Len(bones) = 0 => SumSeq(weights[v]) = 0

\* the 23 bones, a vertex under the influence of exactly 4 of them
C8_Witness ==
    /\ WeightsComputed
    /\ Len(bones) = 23
    /\ Len(vertices) = 3
    /\ \E v \in 1..Len(weights) :
          Cardinality({b \in 1..23 : weights[v][b] > 0}) = 4

\* estimate_skeleton_from_mesh has returned to the handler
Estimated ==
    /\ entry = "handler"
    /\ rpc \in {"estimated", "weighted", "built"} \/ response.kind = "ok"

\* C10 as claimed: the estimated skeleton has 20 bones and the response lists
\* 20 bone names.
C10_TwentyBones ==
    /\ Estimated => Len(bones) = 20
    /\ response.kind = "ok" => Len(response.bones) = 20

\* C10 as amended: for any non-empty mesh the estimated skeleton has 23 bones
\* and the response lists 23 bone names.
C10_TwentyThreeBones ==
    /\ Estimated => Len(bones) = 23
    /\ response.kind = "ok" => Len(response.bones) = 23 /\ response.bone_count = 23

\* the handler has answered with the list of bone names, Hips first and
\* RightToeBase last
C10_Witness ==
    /\ response.kind = "ok"
    /\ response.bones[1] = "Hips"
    /\ response.bones[Len(response.bones)] = "RightToeBase"

-----------------------------------------------------------------------------
(* head_mesh_generator.py: triangulation of the face landmarks.             *)
(* Head-space coordinates are integers in units of 1e-4; face arrays are    *)
(* sequences of 0-based index triples.                                      *)

MaxPts == 4

\* max_edge of the two filter_large_triangles calls, 0.09 and 0.08
MAX_EDGE_TOPOLOGY == 900
MAX_EDGE_DELAUNAY == 800
\* "len(faces) > 500" of the 468-landmark tessellation, scaled to the
\* 4-landmark tessellations of this model
MIN_TOPOLOGY_FACES == 1

Sgn(x) == IF x > 0 THEN 1 ELSE IF x < 0 THEN -1 ELSE 0

Range(f) == {f[k] : k \in DOMAIN f}

RECURSIVE Gcd(_, _)
Gcd(a, b) == IF b = 0 THEN a ELSE Gcd(b, a % b)

\* verts[i] for a 0-based index
At(verts, i) == verts[i + 1]

\* a face as numpy holds it after tuple(sorted(...))
Sort3(a, b, c) ==
    LET lo == Min(a, Min(b, c))
        hi == Max(a, Max(b, c))
    IN  <<lo, (a + b + c) - (lo + hi), hi>>

FaceLess(f, g) ==
    \/ f[1] < g[1]
    \/ f[1] = g[1] /\ f[2] < g[2]
    \/ f[1] = g[1] /\ f[2] = g[2] /\ f[3] < g[3]

\* np.array(list(a set of faces)): the rows in one order, here ascending
RECURSIVE FaceArray(_)
FaceArray(S) ==
    IF S = {} THEN <<>>
    ELSE LET f == CHOOSE x \in S : \A y \in S : y = x \/ FaceLess(x, y)
         IN  <<f>> \o FaceArray(S \ {f})

\* the same without the test `if n2 in neighbors[n1]`: every pair of
\* neighbours of v closes a triangle
build_triangles_from_paths(tessellation_edges) ==
    LET edge_set == {<<Min(e[1], e[2]), Max(e[1], e[2])>> :
                        e \in {d \in tessellation_edges : d[1] # d[2]}}
        keys == {e[1] : e \in edge_set} \cup {e[2] : e \in edge_set}
        neighbors(v) == {e[2] : e \in {d \in edge_set : d[1] = v}}
                        \cup {e[1] : e \in {d \in edge_set : d[2] = v}}
        triangles ==
            UNION {{Sort3(v, q[1], q[2]) :
                      q \in {r \in neighbors(v) \X neighbors(v) : r[1] < r[2]}} :
                   v \in keys}
    IN  FaceArray(triangles)

build_triangles_from_tessellation(tessellation_edges) ==
    LET edge_set == {<<Min(e[1], e[2]), Max(e[1], e[2])>> :
                        e \in {d \in tessellation_edges : d[1] # d[2]}}
        keys == {e[1] : e \in edge_set} \cup {e[2] : e \in edge_set}
        neighbors(v) == {e[2] : e \in {d \in edge_set : d[1] = v}}
                        \cup {e[1] : e \in {d \in edge_set : d[2] = v}}
        triangles ==
            UNION {{Sort3(v, q[1], q[2]) :
                      q \in {r \in neighbors(v) \X neighbors(v) :
                                r[1] < r[2] /\ r[2] \in neighbors(r[1])}} :
                   v \in keys}
    IN  FaceArray(triangles)

\* the square of np.linalg.norm(p - q)
EdgeSq(p, q) ==
    (p[1] - q[1]) * (p[1] - q[1]) + (p[2] - q[2]) * (p[2] - q[2])
        + (p[3] - q[3]) * (p[3] - q[3])

\* max(e0, e1, e2) <= max_edge
EdgesWithin(verts, f, max_edge) ==
    LET a == At(verts, f[1])
        b == At(verts, f[2])
        c == At(verts, f[3])
    IN  /\ EdgeSq(a, b) <= max_edge * max_edge
        /\ EdgeSq(b, c) <= max_edge * max_edge
        /\ EdgeSq(c, a) <= max_edge * max_edge

\* verts[f] with an index past the array raises IndexError; when no face
\* passes, `good` is empty and the input faces are returned as they came
filter_large_triangles(verts, fs, max_edge) ==
    IF \E k \in 1..Len(fs) : \E j \in 1..3 : fs[k][j] >= Len(verts)
    THEN [raised |-> "IndexError", faces |-> <<>>]
    ELSE LET good == SelectSeq(fs, LAMBDA f : EdgesWithin(verts, f, max_edge))
         IN  [raised |-> "none", faces |-> IF good # <<>> THEN good ELSE fs]

(* scipy.spatial.Delaunay on the xy columns. Qhull gives a triangulation    *)
(* whose triangles have no input point strictly inside their circumcircle;  *)
(* with cocircular points there are several, and which one Qhull gives is   *)
(* not fixed by its contract. Fewer than three points, or points all on one *)
(* line, make Qhull raise QhullError.                                       *)

Orient(a, b, c) ==
    (b[1] - a[1]) * (c[2] - a[2]) - (b[2] - a[2]) * (c[1] - a[1])

\* the in-circle determinant of a, b, c around d; its sign does not change
\* when every difference is divided by their common divisor
InCircleDet(a, b, c, d) ==
    LET g0 == Gcd(Gcd(Gcd(Abs(a[1] - d[1]), Abs(a[2] - d[2])),
                      Gcd(Abs(b[1] - d[1]), Abs(b[2] - d[2]))),
                  Gcd(Abs(c[1] - d[1]), Abs(c[2] - d[2])))
        g == IF g0 = 0 THEN 1 ELSE g0
        ax == (a[1] - d[1]) \div g
        ay == (a[2] - d[2]) \div g
        bx == (b[1] - d[1]) \div g
        by == (b[2] - d[2]) \div g
        cx == (c[1] - d[1]) \div g
        cy == (c[2] - d[2]) \div g
        a2 == ax * ax + ay * ay
        b2 == bx * bx + by * by
        c2 == cx * cx + cy * cy
    IN  ax * (by * c2 - b2 * cy) - ay * (bx * c2 - b2 * cx)
            + a2 * (bx * cy - by * cx)

StrictlyInCircle(a, b, c, d) ==
    Sgn(InCircleDet(a, b, c, d)) * Sgn(Orient(a, b, c)) > 0

\* the triangles Qhull may give: not flat, no other point inside the circle
DelaunayCandidates(pts) ==
    LET n == Len(pts)
    IN  {f \in (0..(n - 1)) \X (0..(n - 1)) \X (0..(n - 1)) :
            /\ f[1] < f[2] /\ f[2] < f[3]
            /\ Orient(At(pts, f[1]), At(pts, f[2]), At(pts, f[3])) # 0
            /\ \A d \in 0..(n - 1) :
                  d \in {f[1], f[2], f[3]}
                  \/ ~StrictlyInCircle(At(pts, f[1]), At(pts, f[2]),
                                       At(pts, f[3]), At(pts, d))}

\* the line through p and q has triangle f on one side and g on the other
Separates(pts, p, q, f, g) ==
    \E side \in {-1, 1} :
        /\ \A j \in 1..3 : Sgn(Orient(At(pts, p), At(pts, q), At(pts, f[j]))) * side >= 0
        /\ \A j \in 1..3 : Sgn(Orient(At(pts, p), At(pts, q), At(pts, g[j]))) * side <= 0

InteriorsDisjoint(pts, f, g) ==
    \E h \in {f, g} : \E e \in {<<1, 2>>, <<2, 3>>, <<3, 1>>} :
        Separates(pts, h[e[1]], h[e[2]], f, g)

\* a set of simplices Qhull can give: no overlap, one index per location,
\* and nothing more can be added
IsTriangulation(pts, candidates, T) ==
    LET used(S) == UNION {{f[1], f[2], f[3]} : f \in S}
        sound(S) ==
            /\ \A f \in S : \A g \in S : f = g \/ InteriorsDisjoint(pts, f, g)
            /\ \A i \in used(S) : \A j \in used(S) :
                  i = j \/ At(pts, i)[1] # At(pts, j)[1] \/ At(pts, i)[2] # At(pts, j)[2]
    IN  /\ sound(T)
        /\ \A f \in candidates \ T : ~sound(T \cup {f})

\* tri.simplices of every triangulation Qhull can give; empty when it raises
Delaunay(pts) ==
    LET candidates == DelaunayCandidates(pts)
    IN  {FaceArray(T) : T \in {U \in SUBSET candidates :
                                  U # {} /\ IsTriangulation(pts, candidates, U)}}

\* every result triangulate_face can give for these points: a raised
\* exception or the returned faces
triangulate_face(pts, tess) ==
    LET topology == filter_large_triangles(
                        pts, build_triangles_from_tessellation(tess.edges),
                        MAX_EDGE_TOPOLOGY)
    IN  IF tess.available /\ topology.raised # "none"
        THEN {topology}
        ELSE IF tess.available /\ Len(topology.faces) > MIN_TOPOLOGY_FACES
        THEN {topology}
        ELSE LET tri == Delaunay(pts)
             IN  IF tri = {}
                 THEN {[raised |-> "QhullError", faces |-> <<>>]}
                 ELSE {filter_large_triangles(pts, simplices, MAX_EDGE_DELAUNAY) :
                          simplices \in tri}

\* Step 2 of generate_full_head
HeadTriangulate ==
    /\ hpc = "projected"
    /\ started' = Append(started, "triangulation")
    /\ \E out \in triangulate_face(face_points, tessellation) :
          IF out.raised = "none"
          THEN /\ face_faces' = out.faces
               /\ hpc' = "triangulated"
               /\ error' = error
          ELSE /\ face_faces' = face_faces
               /\ hpc' = "failed"
               /\ error' = out.raised
    /\ UNCHANGED <<landmarks, resolution, use_depth, depth_source, tessellation,
                   face_points, back_verts, back_faces, all_verts, all_faces,
                   stitch_faces, mesh>>
    /\ UNCHANGED <<toolVars, sharedVars, skVars, rigVars>>

-----------------------------------------------------------------------------
(* head_mesh_generator.py: projection of the landmarks into head space.     *)
(* A landmark's x and y are in hundredths of the image size and its z in    *)
(* thousandths; depth_curve is in thousandths of its [-1, 1] range.         *)

X_SCALE == 2400
Y_SCALE == 3000
Y_OFFSET == 8500
Z_SCALE == 1500
Z_OFFSET == 1200

\* a / b rounded to the nearest integer, halves away from zero
RoundDiv(a, b) ==
    IF a >= 0 THEN (2 * a + b) \div (2 * b) ELSE -((2 * (-a) + b) \div (2 * b))

\* (a / 1000) ** 0.55 in units of 1e-4, for a in 0..60
POW_STRENGTH ==
    <<0, 224, 328, 410, 480, 543, 600, 653, 703, 750, 794, 837, 878, 918, 956,
      993, 1029, 1064, 1097, 1131, 1163, 1195, 1226, 1256, 1286, 1315, 1343,
      1372, 1399, 1427, 1454, 1480, 1506, 1532, 1557, 1582, 1607, 1631, 1655,
      1679, 1703, 1726, 1749, 1772, 1794, 1817, 1839, 1861, 1882, 1904, 1925,
      1946, 1967, 1988, 2008, 2029, 2049, 2069, 2089, 2108, 2128>>

\* z_values is not empty: np.max of an empty array raises ValueError
normalize_face_depth(z_values) ==
    LET n == Len(z_values)
        mean == RoundDiv(SumSeq(z_values), n)
        centered == [i \in 1..n |-> z_values[i] - mean]
        compressed == [i \in 1..n |->
                          Sgn(centered[i]) * POW_STRENGTH[Abs(centered[i]) + 1]]
        peak == SeqMax([i \in 1..n |-> Abs(compressed[i])])
    IN  [i \in 1..n |-> RoundDiv(compressed[i] * 100000, peak * 100 + 1)]

\* Step 1 of generate_full_head: face_points, or the exception raised
ProjectLandmarks(lms) ==
    LET forward_z == [i \in 1..Len(lms) |-> -lms[i].z]
        depth_curve == normalize_face_depth(forward_z)
    IN  [i \in 1..Len(lms) |->
            <<((lms[i].x - 50) * X_SCALE) \div 100,
              ((50 - lms[i].y) * Y_SCALE) \div 100 + Y_OFFSET,
              RoundDiv(depth_curve[i] * Z_SCALE, 1000) + Z_OFFSET>>]

HeadProject ==
    /\ hpc = "start"
    /\ started' = Append(started, "projection")
    /\ IF Len(landmarks) = 0
       THEN /\ hpc' = "failed"
            /\ error' = "ValueError"
            /\ face_points' = face_points
       ELSE /\ hpc' = "projected"
            /\ error' = error
            /\ face_points' = ProjectLandmarks(landmarks)
    /\ UNCHANGED <<landmarks, resolution, use_depth, depth_source, tessellation,
                   face_faces, back_verts, back_faces, all_verts, all_faces,
                   stitch_faces, mesh>>
    /\ UNCHANGED <<toolVars, sharedVars, skVars, rigVars>>

-----------------------------------------------------------------------------
(* generate_back_shell. Angles are in steps of pi/144, which holds every    *)
(* angle of a grid of 8, 9, 16 or 18 steps; sines are in units of 1e-4.     *)

HALF_TURN == 144
TrigOne == 10000

\* sin(k * pi / 144) for k in 0..72
SIN_QUARTER ==
    <<0, 218, 436, 654, 872, 1089, 1305, 1521, 1736, 1951, 2164, 2377, 2588,
      2798, 3007, 3214, 3420, 3624, 3827, 4027, 4226, 4423, 4617, 4810, 5000,
      5188, 5373, 5556, 5736, 5913, 6088, 6259, 6428, 6593, 6756, 6915, 7071,
      7224, 7373, 7518, 7660, 7799, 7934, 8064, 8192, 8315, 8434, 8549, 8660,
      8767, 8870, 8969, 9063, 9153, 9239, 9320, 9397, 9469, 9537, 9600, 9659,
      9713, 9763, 9808, 9848, 9884, 9914, 9941, 9962, 9979, 9990, 9998,
      10000>>

\* np.sin and np.cos of k steps, k >= 0
Sin(k) ==
    LET r == k % (2 * HALF_TURN)
        h == r % HALF_TURN
        q == IF 2 * h <= HALF_TURN THEN h ELSE HALF_TURN - h
    IN  IF r < HALF_TURN THEN SIN_QUARTER[q + 1] ELSE -SIN_QUARTER[q + 1]

Cos(k) == Sin(k + HALF_TURN \div 2)

\* r * s * c for a radius and two sines
Scaled(r, s, c) == RoundDiv(r * RoundDiv(s * c, TrigOne), TrigOne)

\* the same with the next row taken cols + 2 vertices further on
GridFacesLongRows(rows, cols, base) ==
    LET cell(k) == <<(k - 1) \div (2 * cols), ((k - 1) % (2 * cols)) \div 2, (k - 1) % 2>>
        v0(k) == base + cell(k)[1] * (cols + 1) + cell(k)[2]
        v2(k) == v0(k) + (cols + 2)
    IN  Array([k \in 1..(2 * rows * cols) |->
            IF cell(k)[3] = 0 THEN <<v0(k), v2(k), v0(k) + 1>>
            ELSE <<v0(k) + 1, v2(k), v2(k) + 1>>])

\* the two triangles of every cell of a rows x cols grid whose first vertex
\* has index base
GridFaces(rows, cols, base) ==
    LET cell(k) == <<(k - 1) \div (2 * cols), ((k - 1) % (2 * cols)) \div 2, (k - 1) % 2>>
        v0(k) == base + cell(k)[1] * (cols + 1) + cell(k)[2]
        v2(k) == v0(k) + (cols + 1)
    IN  Array([k \in 1..(2 * rows * cols) |->
            IF cell(k)[3] = 0 THEN <<v0(k), v2(k), v0(k) + 1>>
            ELSE <<v0(k) + 1, v2(k), v2(k) + 1>>])

\* a shell centre in front of the face plane
BackCenterInFront(face_z_min, radius_z) == face_z_min + RoundDiv(radius_z * 18, 100)

\* back_center_z = face_z_min - radius_z * 0.18
BackCenterZ(face_z_min, radius_z) == face_z_min - RoundDiv(radius_z * 18, 100)

generate_back_shell(pts, res) ==
    LET xs == Column(pts, 1)
        ys == Column(pts, 2)
        zs == Column(pts, 3)
        face_center_x == RoundDiv(SumSeq(xs), Len(pts))
        face_center_y == RoundDiv(SumSeq(ys), Len(pts))
        face_width == SeqMax(xs) - SeqMin(xs)
        face_height == SeqMax(ys) - SeqMin(ys)
        face_z_min == SeqMin(zs)
        radius_x == Max(RoundDiv(face_width * 60, 100), 400)
        radius_y == Max(RoundDiv(face_height * 58, 100), 500)
        radius_z == Max(RoundDiv(face_width * 55, 100), 400)
        back_center_z == BackCenterZ(face_z_min, radius_z)
        lat_steps == Max(8, res \div 2)
        lon_steps == Max(16, res)
        flat_z == back_center_z - RoundDiv(radius_z * 55, 100)
        vertex(k) ==
            LET i == (k - 1) \div (lon_steps + 1)
                j == (k - 1) % (lon_steps + 1)
                theta == (HALF_TURN * i) \div lat_steps
                phi == HALF_TURN + (HALF_TURN * j) \div lon_steps
                z == Scaled(radius_z, Sin(theta), Sin(phi)) + back_center_z
            IN  <<Scaled(radius_x, Sin(theta), Cos(phi)) + face_center_x,
                  RoundDiv(radius_y * Cos(theta), TrigOne) + face_center_y,
                  IF z < flat_z THEN RoundDiv(z * 92 + flat_z * 8, 100) ELSE z>>
    IN  [vertices |-> Array([k \in 1..((lat_steps + 1) * (lon_steps + 1)) |-> vertex(k)]),
         faces |-> GridFaces(lat_steps, lon_steps, 0)]

\* Step 3 of generate_full_head
HeadShell ==
    /\ hpc = "triangulated"
    /\ started' = Append(started, "shell")
    /\ LET shell == generate_back_shell(face_points, resolution)
       IN  /\ back_verts' = shell.vertices
           /\ back_faces' = shell.faces
    /\ hpc' = "shelled"
    /\ UNCHANGED <<landmarks, resolution, use_depth, depth_source, tessellation,
                   face_points, face_faces, all_verts, all_faces, stitch_faces,
                   mesh, error>>
    /\ UNCHANGED <<toolVars, sharedVars, skVars, rigVars>>

\* faces + offset
\* shell faces merged with the indices the shell gave them
FacesNotOffset(fs, offset) == fs

\* back_faces + num_face_verts
OffsetFaces(fs, offset) ==
    Array([k \in 1..Len(fs) |-> <<fs[k][1] + offset, fs[k][2] + offset, fs[k][3] + offset>>])

\* Step 4 of generate_full_head
HeadMerge ==
    /\ hpc = "shelled"
    /\ started' = Append(started, "merge")
    /\ all_verts' = face_points \o back_verts
    /\ all_faces' = face_faces \o OffsetFaces(back_faces, Len(face_points))
    /\ hpc' = "merged"
    /\ UNCHANGED <<landmarks, resolution, use_depth, depth_source, tessellation,
                   face_points, face_faces, back_verts, back_faces, stitch_faces,
                   mesh, error>>
    /\ UNCHANGED <<toolVars, sharedVars, skVars, rigVars>>

(* stitch_face_to_back. Index lists (boundary, shell_ring) are sequences of  *)
(* 0-based indices in ascending order unless sorted otherwise.              *)

\* the indices i in 0..n-1 with keep[i + 1], ascending: np.where(...)[0]
Where(keep) ==
    KeepRange([i \in 1..Len(keep) |-> i - 1], keep, 1, Len(keep))

\* hull.vertices of ConvexHull(xy): the corners of the hull, each once (of
\* points at one place the first). Point i is a corner when a line through it
\* and another point has no point on its right and none behind i on the line.
\* Qhull gives them counterclockwise; they are listed ascending here, and
\* the angle sort that follows orders them again. Empty when Qhull raises:
\* fewer than 3 points, or all on one line.
ConvexHullVertices(pts) ==
    LET n == Len(pts)
        ahead(i, j, k) ==
            (pts[k][1] - pts[i][1]) * (pts[j][1] - pts[i][1])
                + (pts[k][2] - pts[i][2]) * (pts[j][2] - pts[i][2]) >= 0
        corner(i) ==
            /\ \A l \in 1..(i - 1) : pts[l][1] # pts[i][1] \/ pts[l][2] # pts[i][2]
            /\ \E j \in 1..n :
                  /\ pts[j][1] # pts[i][1] \/ pts[j][2] # pts[i][2]
                  /\ \A k \in 1..n :
                        \/ Orient(pts[i], pts[j], pts[k]) > 0
                        \/ Orient(pts[i], pts[j], pts[k]) = 0 /\ ahead(i, j, k)
        flat == \A i \in 1..n : \A j \in 1..n : \A k \in 1..n :
                    Orient(pts[i], pts[j], pts[k]) = 0
    IN  IF n < 3 \/ flat THEN <<>>
        ELSE Where(Array([i \in 1..n |-> corner(i)]))

\* the k-th smallest of the values, k counted from 0
KthSmallest(values, k) ==
    CHOOSE v \in Range(values) :
        /\ Cardinality({i \in 1..Len(values) : values[i] < v}) <= k
        /\ k < Cardinality({i \in 1..Len(values) : values[i] <= v})

\* 100 * np.quantile(values, percent / 100), by linear interpolation
Quantile100(values, percent) ==
    LET h == (Len(values) - 1) * percent
        lo == KthSmallest(values, h \div 100)
    IN  IF h % 100 = 0 THEN 100 * lo
        ELSE 100 * lo + (h % 100) * (KthSmallest(values, h \div 100 + 1) - lo)

\* np.where(values >= np.quantile(values, percent / 100))[0]
AtLeastQuantile(values, percent) ==
    LET q == Quantile100(values, percent)
    IN  Where(Array([i \in 1..Len(values) |-> 100 * values[i] >= q]))

\* the except branch: the points farthest from the centre, r in units of 1e-5
QuantileBoundary(pts) ==
    LET n == Len(pts)
        cx == RoundDiv(SumSeq(Column(pts, 1)), n)
        cy == RoundDiv(SumSeq(Column(pts, 2)), n)
        r == Array([i \in 1..n |->
                 Isqrt(100 * ((pts[i][1] - cx) * (pts[i][1] - cx)
                              + (pts[i][2] - cy) * (pts[i][2] - cy)))])
    IN  AtLeastQuantile(r, 85)

\* np.arctan2(u) < np.arctan2(v) for two directions u, v from the centre;
\* arctan2 is in (-pi, pi], pi itself for a direction along the negative x axis
AngleLess(u, v) ==
    LET part(w) == IF w[2] < 0 THEN 0
                   ELSE IF w[2] = 0 /\ w[1] >= 0 THEN 1
                   ELSE IF w[2] > 0 THEN 2 ELSE 3
    IN  \/ part(u) < part(v)
        \/ part(u) = part(v) /\ u[1] * v[2] - u[2] * v[1] > 0

\* boundary reordered by np.argsort(ang); the directions are taken from the
\* mean of the boundary points, scaled by their number to stay whole
SortByAngle(pts, boundary, ties) ==
    LET m == Len(boundary)
        sx == SumSeq([i \in 1..m |-> At(pts, boundary[i])[1]])
        sy == SumSeq([i \in 1..m |-> At(pts, boundary[i])[2]])
        dir == Array([i \in 1..m |-> <<m * At(pts, boundary[i])[1] - sx,
                                      m * At(pts, boundary[i])[2] - sy>>])
        ang == Array([i \in 1..m |->
                   Cardinality({j \in 1..m : AngleLess(dir[j], dir[i])})])
        order == Argsort(ang, m, ties)
    IN  Array([i \in 1..m |-> boundary[order[i] + 1]])

\* shell_ring[int(np.argmin(d))]: the first of the nearest ring vertices
NearestShell(back, shell_ring, fp) ==
    LET d == Array([i \in 1..Len(shell_ring) |-> EdgeSq(At(back, shell_ring[i]), fp)])
        first == CHOOSE i \in 1..Len(d) :
                     /\ \A j \in 1..Len(d) : d[i] <= d[j]
                     /\ \A j \in 1..(i - 1) : d[j] > d[i]
    IN  shell_ring[first]

\* a shell index as the merged array numbers it, without the offset
ShellSideLocal(shell_index, face_vert_offset) == shell_index

\* nearest_shell[i] + face_vert_offset
ShellSide(shell_index, face_vert_offset) == shell_index + face_vert_offset

\* a length test that lets every list through
TooFewNever(count) == FALSE

\* len(boundary) < 10, len(shell_ring) < 10
TooFew(count) == count < 10

\* boundary before the angle sort: the hull's corners, or the except branch
Boundary(pts) ==
    LET hull == ConvexHullVertices(pts)
    IN  IF hull # <<>> THEN hull ELSE QuantileBoundary(pts)

\* shell_ring: the vertices at or above the 0.92 quantile of z, or the 0.90
\* quantile when those are too few
ShellRing(back) ==
    LET z == Column(back, 3)
        ring92 == AtLeastQuantile(z, 92)
    IN  IF TooFew(Len(ring92)) THEN AtLeastQuantile(z, 90) ELSE ring92

stitch_face_to_back(pts, back, face_vert_offset, ties) ==
    LET found == Boundary(pts)
        shell_ring == ShellRing(back)
        boundary == SortByAngle(pts, found, ties)
        n == Len(boundary)
        nearest_shell == Array([i \in 1..n |->
                             NearestShell(back, shell_ring, At(pts, boundary[i]))])
        next(i) == (i % n) + 1
        b(i) == ShellSide(nearest_shell[i], face_vert_offset)
        pair(i) == <<<<boundary[i], boundary[next(i)], b(i)>>,
                     <<boundary[next(i)], b(next(i)), b(i)>>>>
    IN  IF TooFew(Len(found)) THEN <<>>
        ELSE IF TooFew(Len(shell_ring)) THEN <<>>
        ELSE Array([k \in 1..(2 * n) |-> pair((k + 1) \div 2)[2 - (k % 2)]])

\* Step 5 of generate_full_head
HeadStitch ==
    /\ hpc = "merged"
    /\ started' = Append(started, "stitch")
    /\ \E ties \in {"low", "high"} :
          LET stitched == stitch_face_to_back(face_points, back_verts,
                                              Len(face_points), ties)
          IN  /\ stitch_faces' = stitched
              /\ all_faces' = IF Len(stitched) > 0 THEN all_faces \o stitched
                              ELSE all_faces
    /\ hpc' = "stitched"
    /\ UNCHANGED <<landmarks, resolution, use_depth, depth_source, tessellation,
                   face_points, face_faces, back_verts, back_faces, all_verts,
                   mesh, error>>
    /\ UNCHANGED <<toolVars, sharedVars, skVars, rigVars>>

-----------------------------------------------------------------------------
(* refine_face_depth. A depth source is what torch.hub.load, cv2.imread and *)
(* MiDaS give for image_path: the model fails to load, the image cannot be  *)
(* read, or there is a depth map (rows of raw depths, one per pixel) and    *)
(* possibly an iteration of the per-vertex loop that raises.                *)

\* the default depth_strength, 0.03
DEPTH_STRENGTH == 300
\* normalised depths are in units of 1e-4
DepthOne == 10000

Clip(v, lo, hi) == Max(lo, Min(v, hi))

\* an except branch that handed back the half-refined copy
OnExceptionReturnsCopy(vertices_in, refined) == refined

\* what the except branch hands back: the caller's array, not the copy
OnException(vertices_in, refined) == vertices_in

\* an inverse that leaves Y_OFFSET out
InverseWithoutOffset(vx, vy) ==
    [x |-> [num |-> 2 * vx + X_SCALE, den |-> 2 * X_SCALE],
     y |-> [num |-> Y_SCALE - 2 * vy, den |-> 2 * Y_SCALE]]

\* lm_x = (vx / X_SCALE) + 0.5 and lm_y = 0.5 - ((vy - Y_OFFSET) / Y_SCALE),
\* each as a fraction num / den of the image's width or height
InverseMapping(vx, vy) ==
    [x |-> [num |-> 2 * vx + X_SCALE, den |-> 2 * X_SCALE],
     y |-> [num |-> Y_SCALE - 2 * (vy - Y_OFFSET), den |-> 2 * Y_SCALE]]

\* the pixel of the depth map sampled for a vertex at (vx, vy): lm_x * w and
\* lm_y * h, clipped to the image and rounded down
SamplePixel(vx, vy, w, h) ==
    LET lm == InverseMapping(vx, vy)
        lm_x_w == (lm.x.num * w) \div lm.x.den
        lm_y_h == (lm.y.num * h) \div lm.y.den
    IN  <<Clip(lm_x_w, 0, w - 1), Clip(lm_y_h, 0, h - 1)>>

\* a loop over every vertex of the array
RefineCountAll(num_face_verts, n) == n

\* range(min(num_face_verts, len(vertices)))
RefineCount(num_face_verts, n) == Min(num_face_verts, n)

\* the refined copy after the first `done` iterations of the loop: iteration
\* vi reads row vi and adds to refined[vi, 2]
RefineLoop(refined, depth_map, d_min, d_max, done) ==
    LET h == Len(depth_map)
        w == Len(depth_map[1])
        Row(vi) ==
            LET pixel == SamplePixel(refined[vi][1], refined[vi][2], w, h)
                px == pixel[1]
                py == pixel[2]
                depth_val == RoundDiv((depth_map[py + 1][px + 1] - d_min) * DepthOne,
                                      d_max - d_min)
            IN  [refined[vi] EXCEPT ![3] =
                    @ + RoundDiv((depth_val - DepthOne \div 2) * DEPTH_STRENGTH, DepthOne)]
    IN  Array([vi \in 1..Len(refined) |-> IF vi <= done THEN Row(vi) ELSE refined[vi]])

refine_face_depth(vertices_in, source, num_face_verts) ==
    IF source.outcome = "load_error" THEN OnException(vertices_in, vertices_in)
    ELSE IF source.outcome = "unreadable" THEN vertices_in
    ELSE LET flat == [k \in 1..(Len(source.depth_map) * Len(source.depth_map[1])) |->
                         source.depth_map[(k - 1) \div Len(source.depth_map[1]) + 1]
                                         [((k - 1) % Len(source.depth_map[1])) + 1]]
             d_min == SeqMin(flat)
             d_max == SeqMax(flat)
             count == RefineCount(num_face_verts, Len(vertices_in))
         IN  IF d_max - d_min < 1 THEN vertices_in
             ELSE IF source.fail_at \in 0..(count - 1)
             THEN OnException(vertices_in,
                              RefineLoop(vertices_in, source.depth_map, d_min, d_max,
                                         source.fail_at))
             ELSE RefineLoop(vertices_in, source.depth_map, d_min, d_max, count)

DepthMaps == {<<<<7, 7>>, <<7, 7>>>>, <<<<0, 10>>, <<20, 40>>>>, <<<<5, 1, 3>>>>}

DepthSources ==
    {[outcome |-> "load_error", depth_map |-> <<>>, fail_at |-> -1],
     [outcome |-> "unreadable", depth_map |-> <<>>, fail_at |-> -1]}
    \cup {[outcome |-> "map", depth_map |-> m, fail_at |-> k] :
             m \in DepthMaps, k \in {-1, 0, 2}}

\* Step 6 of generate_full_head
HeadDepth ==
    /\ hpc = "stitched"
    /\ IF use_depth
       THEN /\ started' = Append(started, "depth")
            /\ \E source \in DepthSources :
                  /\ depth_source' = source
                  /\ all_verts' = refine_face_depth(all_verts, source, Len(face_points))
       ELSE /\ started' = started
            /\ depth_source' = depth_source
            /\ all_verts' = all_verts
    /\ hpc' = "refined"
    /\ UNCHANGED <<landmarks, resolution, use_depth, tessellation,
                   face_points, face_faces, back_verts, back_faces, all_faces,
                   stitch_faces, mesh, error>>
    /\ UNCHANGED <<toolVars, sharedVars, skVars, rigVars>>

-----------------------------------------------------------------------------
(* add_neck                                                                 *)

NECK_RINGS == 3
\* neck_length / neck_rings, 0.005 a ring
NECK_RING_DROP == 50

\* neck indices counted from the first vertex of the head
NeckBaseZero(vertices_in) == 0

\* base_idx = len(vertices)
NeckBase(vertices_in) == Len(vertices_in)

\* The result, and the two argument arrays as the call leaves them: nothing
\* is stored into them, np.vstack builds new arrays.
add_neck(vertices_in, faces_in, res) ==
    LET xs == Column(vertices_in, 1)
        head_width == SeqMax(xs) - SeqMin(xs)
        head_center_x == RoundDiv(SumSeq(xs), Len(vertices_in))
        head_center_z == RoundDiv(SumSeq(Column(vertices_in, 3)), Len(vertices_in))
        min_y == SeqMin(Column(vertices_in, 2))
        neck_radius == Max(RoundDiv(head_width * 30, 100), 200)
        lon_steps == Max(16, res)
        base_idx == NeckBase(vertices_in)
        neck_vert(k) ==
            LET ring == (k - 1) \div (lon_steps + 1)
                j == (k - 1) % (lon_steps + 1)
                \* r = neck_radius * (1.0 - t * 0.10) with t = ring / neck_rings
                r == RoundDiv(neck_radius * (10 * NECK_RINGS - ring), 10 * NECK_RINGS)
                phi == (2 * HALF_TURN * j) \div lon_steps
            IN  <<head_center_x + RoundDiv(r * Cos(phi), TrigOne),
                  min_y - ring * NECK_RING_DROP,
                  head_center_z + RoundDiv(r * Sin(phi), TrigOne)>>
        neck_verts == Array([k \in 1..((NECK_RINGS + 1) * (lon_steps + 1)) |-> neck_vert(k)])
        neck_faces == GridFaces(NECK_RINGS, lon_steps, base_idx)
    IN  [vertices |-> vertices_in \o neck_verts, faces |-> faces_in \o neck_faces,
         arg_vertices |-> vertices_in, arg_faces |-> faces_in]

\* the neck added as soon as the stitch is done, before step 6
HeadNeckBeforeDepth ==
    /\ hpc = "stitched"
    /\ "neck" \notin Range(started)
    /\ started' = Append(started, "neck")
    /\ LET necked == add_neck(all_verts, all_faces, resolution)
       IN  /\ all_verts' = necked.vertices
           /\ all_faces' = necked.faces
    /\ hpc' = "stitched"
    /\ UNCHANGED <<landmarks, resolution, use_depth, depth_source, tessellation,
                   face_points, face_faces, back_verts, back_faces, stitch_faces,
                   mesh, error>>
    /\ UNCHANGED <<toolVars, sharedVars, skVars, rigVars>>

\* Step 7 of generate_full_head
HeadNeck ==
    /\ hpc = "refined"
    /\ started' = Append(started, "neck")
    /\ LET necked == add_neck(all_verts, all_faces, resolution)
       IN  /\ all_verts' = necked.vertices
           /\ all_faces' = necked.faces
    /\ hpc' = "necked"
    /\ UNCHANGED <<landmarks, resolution, use_depth, depth_source, tessellation,
                   face_points, face_faces, back_verts, back_faces, stitch_faces,
                   mesh, error>>
    /\ UNCHANGED <<toolVars, sharedVars, skVars, rigVars>>

-----------------------------------------------------------------------------
(* cleanup_mesh and the end of generate_full_head. A mesh is the vertices   *)
(* and faces that are left, in the order of the arrays it was built from,   *)
(* and the trimesh calls that ran on it; the winding fix_normals chooses    *)
(* and the positions filter_laplacian moves the vertices to are not held.   *)

Trimesh(vs, fs) == [kind |-> "mesh", vertices |-> vs, faces |-> fs, ops |-> <<>>]

\* the three vertices of the face are on one line or coincide
ZeroArea(vs, f) ==
    LET a == At(vs, f[1])
        b == At(vs, f[2])
        c == At(vs, f[3])
        u == <<b[1] - a[1], b[2] - a[2], b[3] - a[3]>>
        v == <<c[1] - a[1], c[2] - a[2], c[3] - a[3]>>
    IN  /\ u[2] * v[3] - u[3] * v[2] = 0
        /\ u[3] * v[1] - u[1] * v[3] = 0
        /\ u[1] * v[2] - u[2] * v[1] = 0

remove_degenerate_faces(m) ==
    [m EXCEPT !.faces = SelectSeq(m.faces, LAMBDA f : ~ZeroArea(m.vertices, f)),
              !.ops = Append(@, "remove_degenerate_faces")]

\* a face is dropped when an earlier one has the same three indices
remove_duplicate_faces(m) ==
    LET n == Len(m.faces)
        key == Array([k \in 1..n |-> Sort3(m.faces[k][1], m.faces[k][2], m.faces[k][3])])
        first == Array([k \in 1..n |-> \A j \in 1..(k - 1) : key[j] # key[k]])
    IN  [m EXCEPT !.faces = KeepRows(m.faces, first, n),
                  !.ops = Append(@, "remove_duplicate_faces")]

\* the new index of every kept row: the number of kept rows before it
NewIndex(mask, n) ==
    Array([i \in 1..n |-> Cardinality({j \in 1..(i - 1) : mask[j]})])

\* vertices[mask] and inverse[faces]
update_vertices(m, mask, inverse) ==
    [m EXCEPT !.vertices = KeepRows(m.vertices, mask, Len(m.vertices)),
              !.faces = Array([k \in 1..Len(m.faces) |->
                            <<inverse[m.faces[k][1] + 1], inverse[m.faces[k][2] + 1],
                              inverse[m.faces[k][3] + 1]>>])]

\* referenced[faces] = True, for every vertex
Referenced(m) ==
    LET used == UNION {{m.faces[k][1], m.faces[k][2], m.faces[k][3]} :
                          k \in 1..Len(m.faces)}
    IN  Array([i \in 1..Len(m.vertices) |-> (i - 1) \in used])

remove_unreferenced_vertices(m) ==
    LET n == Len(m.vertices)
        mask == Referenced(m)
        updated == update_vertices(m, mask, NewIndex(mask, n))
    IN  [updated EXCEPT !.ops = Append(@, "remove_unreferenced_vertices")]

\* referenced vertices at one position become the first of them
merge_vertices(m) ==
    LET n == Len(m.vertices)
        referenced == Referenced(m)
        first == Array([i \in 1..n |->
                     IF referenced[i]
                     THEN CHOOSE j \in 1..i :
                              /\ referenced[j] /\ m.vertices[j] = m.vertices[i]
                              /\ \A l \in 1..(j - 1) :
                                    ~(referenced[l] /\ m.vertices[l] = m.vertices[i])
                     ELSE 0])
        mask == Array([i \in 1..n |-> first[i] = i])
        kept == NewIndex(mask, n)
        inverse == Array([i \in 1..n |-> IF first[i] = 0 THEN 0 ELSE kept[first[i]]])
        updated == update_vertices(m, mask, inverse)
    IN  [updated EXCEPT !.ops = Append(@, "merge_vertices")]

fix_normals(m) == [m EXCEPT !.ops = Append(@, "fix_normals")]

filter_laplacian(m) == [m EXCEPT !.ops = Append(@, "filter_laplacian")]

\* the vertices merged before the unreferenced ones are removed
cleanup_merge_first(m, has_legacy_api) ==
    LET m1 == IF has_legacy_api THEN remove_degenerate_faces(m) ELSE m
        m2 == IF has_legacy_api THEN remove_duplicate_faces(m1) ELSE m1
        m3 == merge_vertices(m2)
        m4 == remove_unreferenced_vertices(m3)
    IN  fix_normals(m4)

\* remove_degenerate_faces and remove_duplicate_faces left trimesh's API in
\* later releases; where they are gone the call raises and is passed over
cleanup_mesh(m, has_legacy_api) ==
    LET m1 == IF has_legacy_api THEN remove_degenerate_faces(m) ELSE m
        m2 == IF has_legacy_api THEN remove_duplicate_faces(m1) ELSE m1
        m3 == remove_unreferenced_vertices(m2)
        m4 == merge_vertices(m3)
    IN  fix_normals(m4)

\* Step 8 of generate_full_head: the mesh that is returned
FinishMesh(vs, fs, has_legacy_api) ==
    fix_normals(filter_laplacian(cleanup_mesh(Trimesh(vs, fs), has_legacy_api)))

HeadCleanup ==
    /\ hpc = "necked"
    /\ started' = Append(started, "cleanup")
    /\ \E has_legacy_api \in BOOLEAN :
          mesh' = FinishMesh(all_verts, all_faces, has_legacy_api)
    /\ hpc' = "done"
    /\ UNCHANGED <<landmarks, resolution, use_depth, depth_source, tessellation,
                   face_points, face_faces, back_verts, back_faces, all_verts,
                   all_faces, stitch_faces, error>>
    /\ UNCHANGED <<toolVars, sharedVars, skVars, rigVars>>

-----------------------------------------------------------------------------
(* SpecTri: triangulate_face on every array of up to MaxPts face points.    *)

\* two flat squares' corners, three of them on one line, and one raised point
TriGrid == {<<0, 0, 0>>, <<500, 0, 0>>, <<0, 500, 0>>, <<1000, 0, 0>>,
            <<500, 500, 700>>}

\* FACEMESH_TESSELATION: None when mediapipe is missing, else a set of edges
Tessellations ==
    {NoTessellation,
     [available |-> TRUE, edges |-> {}],
     [available |-> TRUE, edges |-> {<<0, 1>>, <<1, 2>>, <<2, 0>>}],
     [available |-> TRUE, edges |-> {<<0, 1>>, <<1, 2>>, <<0, 2>>, <<1, 3>>, <<3, 2>>}],
     [available |-> TRUE, edges |-> {<<0, 1>>, <<1, 0>>, <<1, 1>>, <<1, 2>>, <<0, 2>>,
                                     <<2, 3>>, <<1, 3>>, <<3, 0>>}]}

TriInit ==
    /\ hpc = "projected"
    /\ \E n \in 0..MaxPts : face_points \in [1..n -> TriGrid]
    /\ tessellation \in Tessellations
    /\ landmarks = <<>> /\ resolution = 0 /\ use_depth = FALSE
    /\ depth_source = NoDepthSource
    /\ face_faces = <<>>
    /\ back_verts = <<>> /\ back_faces = <<>>
    /\ all_verts = <<>> /\ all_faces = <<>>
    /\ stitch_faces = <<>> /\ mesh = NoMesh
    /\ started = <<>> /\ error = "none"
    /\ SkelIdle
    /\ SharedIdle
    /\ ToolIdle
    /\ RigIdle

SpecTri == TriInit /\ [][HeadTriangulate]_vars

\* triangulate_face has been called and has returned or raised
TriangulateDone == hpc \in {"triangulated", "failed"} /\ "triangulation" \in Range(started)

\* C2: for at least 3 face points triangulate_face returns at least one
\* triangle, and every index of every returned triangle is smaller than the
\* number of points.
C2_TriangulateReturnsValidFaces ==
    (TriangulateDone /\ Len(face_points) >= 3) =>
        /\ hpc = "triangulated"
        /\ Len(face_faces) >= 1
        /\ \A k \in 1..Len(face_faces) : \A j \in 1..3 :
              face_faces[k][j] \in 0..(Len(face_points) - 1)

\* no triangle of either strategy passes its edge filter: the topology, when
\* there is one, indexes only existing points and none of its triangles has
\* all edges within 0.09, and Qhull triangulates the points but none of its
\* triangles has all edges within 0.08
ZeroFromBothStrategies ==
    LET topo == build_triangles_from_tessellation(tessellation.edges)
    IN  /\ tessellation.available =>
              \A k \in 1..Len(topo) :
                  /\ \A j \in 1..3 : topo[k][j] < Len(face_points)
                  /\ ~EdgesWithin(face_points, topo[k], MAX_EDGE_TOPOLOGY)
        /\ Delaunay(face_points) # {}
        /\ \A simplices \in Delaunay(face_points) : \A k \in 1..Len(simplices) :
              ~EdgesWithin(face_points, simplices[k], MAX_EDGE_DELAUNAY)

\* C3: when both strategies leave zero triangles after the edge filter,
\* triangulation fails with GeometryDegenerate and returns no triangle set.
C3_GeometryDegenerateRaised ==
    (TriangulateDone /\ ZeroFromBothStrategies) =>
        hpc = "failed" /\ error = "GeometryDegenerate"

-----------------------------------------------------------------------------
(* SpecStitch: stitch_face_to_back on face outlines of 4 to 14 points and   *)
(* on shells of 10 to 190 vertices.                                         *)

\* twelve points around (0, 0.85), no four of them on one circle
Outline ==
    <<<<500, 8500, 1200>>, <<430, 8750, 1200>>, <<250, 8930, 1200>>,
      <<0, 9000, 1200>>, <<-250, 8930, 1200>>, <<-430, 8750, 1200>>,
      <<-500, 8500, 1200>>, <<-430, 8250, 1200>>, <<-250, 8070, 1200>>,
      <<0, 8000, 1200>>, <<250, 8070, 1200>>, <<430, 8250, 1200>>>>

DropAt(seq, k) == SubSeq(seq, 1, k - 1) \o SubSeq(seq, k + 1, Len(seq))

\* the outline, with points inside it, with one, two or three points less,
\* ten points at two places, twelve along a line, and four points
StitchFaceSets ==
    {Outline,
     Outline \o <<<<0, 8500, 1500>>, <<100, 8550, 1400>>>>,
     DropAt(DropAt(Outline, 9), 2),
     DropAt(DropAt(DropAt(Outline, 9), 5), 2),
     [i \in 1..10 |-> IF i % 2 = 0 THEN <<-300, 8500, 1200>> ELSE <<300, 8500, 1200>>],
     [i \in 1..12 |-> <<100 * i - 600, 8500, 1200>>],
     SubSeq(Outline, 1, 4)}
    \cup {DropAt(Outline, k) : k \in 1..12}

\* the shell of the points at two resolutions, twelve vertices at twelve
\* depths, and ten at one depth
StitchBacks(pts) ==
    {generate_back_shell(pts, 8).vertices,
     generate_back_shell(pts, 18).vertices,
     [i \in 1..12 |-> <<40 * i - 260, 8500, 10 * i>>],
     [i \in 1..10 |-> <<60 * i - 330, 8400 + 20 * i, 900>>]}

StitchInit ==
    /\ hpc = "merged"
    /\ face_points \in StitchFaceSets
    /\ back_verts \in StitchBacks(face_points)
    /\ all_verts = face_points \o back_verts
    /\ all_faces = <<>>
    /\ landmarks = <<>> /\ resolution = 0 /\ use_depth = FALSE
    /\ depth_source = NoDepthSource /\ tessellation = NoTessellation
    /\ face_faces = <<>> /\ back_faces = <<>>
    /\ stitch_faces = <<>> /\ mesh = NoMesh
    /\ started = <<>> /\ error = "none"
    /\ SkelIdle
    /\ SharedIdle
    /\ ToolIdle
    /\ RigIdle

\* steps 5 to 8 of generate_full_head
StitchNext ==
    \/ HeadStitch
    \/ HeadDepth
    \/ HeadNeck
    \/ HeadCleanup

SpecStitch == StitchInit /\ [][StitchNext]_vars

\* stitch_face_to_back has returned
Stitched == "stitch" \in Range(started)

\* C11: a non-empty result of stitch_face_to_back has two triangles for
\* every boundary point, (f0, f1, b0) and (f1, b1, b0) for every consecutive
\* pair of the closed boundary loop, with f0, f1 below the number of face
\* points and b0, b1 in face_vert_offset .. face_vert_offset + shell size - 1.
C11_StitchIndicesValid ==
    (Stitched /\ stitch_faces # <<>>) =>
        LET n == Len(Boundary(face_points))
            offset == Len(face_points)
            face_side == 0..(offset - 1)
            shell_side == offset..(offset + Len(back_verts) - 1)
            f(i) == stitch_faces[2 * i - 1][1]
            b(i) == stitch_faces[2 * i - 1][3]
            next(i) == (i % n) + 1
        IN  /\ Len(stitch_faces) = 2 * n
            /\ \A i \in 1..n :
                  /\ f(i) \in face_side /\ b(i) \in shell_side
                  /\ stitch_faces[2 * i - 1] = <<f(i), f(next(i)), b(i)>>
                  /\ stitch_faces[2 * i] = <<f(next(i)), b(next(i)), b(i)>>

\* the twelve corners of the outline were stitched to the shell of
\* resolution 8, whose first vertices have indices below the offset
C11_Witness ==
    /\ Stitched
    /\ Len(stitch_faces) = 24
    /\ Len(face_points) = 14
    /\ Len(back_verts) = 153
    /\ \E k \in 1..24 : stitch_faces[k][3] - Len(face_points) < Len(face_points)

\* C12: with fewer than 10 boundary points or fewer than 10 shell-ring
\* points stitch_face_to_back returns no faces and raises nothing, and
\* generate_full_head goes on through depth, neck and cleanup with the face
\* and shell triangles as the merge step left them.
C12_StitchUnavailableIsSkipped ==
    (Stitched /\ (Len(Boundary(face_points)) < 10 \/ Len(ShellRing(back_verts)) < 10)) =>
        /\ stitch_faces = <<>>
        /\ error = "none" /\ hpc \in {"stitched", "refined", "necked", "done"}
        /\ LET merged_faces == face_faces \o OffsetFaces(back_faces, Len(face_points))
           IN  /\ hpc \in {"stitched", "refined"} => all_faces = merged_faces
               /\ hpc \in {"necked", "done"} =>
                     /\ SubSeq(all_faces, 1, Len(merged_faces)) = merged_faces
                     /\ \A k \in (Len(merged_faces) + 1)..Len(all_faces) :
                           \A j \in 1..3 :
                               all_faces[k][j] >= Len(face_points) + Len(back_verts)
               /\ hpc = "done" => mesh.kind = "mesh"

\* a mesh was returned although the outline has ten corners and the shell
\* only two vertices in its ring
C12_Witness ==
    /\ hpc = "done"
    /\ Len(Boundary(face_points)) >= 10
    /\ Len(ShellRing(back_verts)) < 10
    /\ stitch_faces = <<>>
    /\ started = <<"stitch", "neck", "cleanup">>

-----------------------------------------------------------------------------
(* SpecShell: generate_back_shell on every array of up to MaxShellPts face  *)
(* points, at resolutions on both sides of the floors of 8 and 16 steps.    *)

MaxShellPts == 2

\* the corners of the head space the projection reaches, and two points
\* close to each other in its middle
ShellGrid == {<<-1200, 7000, -300>>, <<1200, 10000, 2700>>, <<0, 8500, 1200>>,
              <<100, 8600, 1150>>}

ShellResolutions == {-4, 0, 8, 18, 19, 36}

ShellInit ==
    /\ hpc = "triangulated"
    /\ \E n \in 1..MaxShellPts : face_points \in [1..n -> ShellGrid]
    /\ resolution \in ShellResolutions
    /\ landmarks = <<>> /\ use_depth = FALSE
    /\ depth_source = NoDepthSource /\ tessellation = NoTessellation
    /\ face_faces = <<>>
    /\ back_verts = <<>> /\ back_faces = <<>>
    /\ all_verts = <<>> /\ all_faces = <<>>
    /\ stitch_faces = <<>> /\ mesh = NoMesh
    /\ started = <<>> /\ error = "none"
    /\ SkelIdle
    /\ SharedIdle
    /\ ToolIdle
    /\ RigIdle

SpecShell == ShellInit /\ [][HeadShell]_vars

\* generate_back_shell has returned
Shelled == "shell" \in Range(started)

\* C13: no vertex of the back shell has a z greater than the smallest z of
\* the face points, the vertices moved by the inward flattening included.
C13_ShellBehindFace ==
    Shelled =>
        \A k \in 1..Len(back_verts) :
            back_verts[k][3] <= SeqMin(Column(face_points, 3))

\* a shell of resolution 18 with a vertex that the flattening moved: deeper
\* than 0.55 radius_z behind the centre, less deep than the sphere
C13_Witness ==
    /\ Shelled
    /\ resolution = 18
    /\ Len(back_verts) = 190
    /\ LET xs == Column(face_points, 1)
           radius_z == Max(RoundDiv((SeqMax(xs) - SeqMin(xs)) * 55, 100), 400)
           centre == BackCenterZ(SeqMin(Column(face_points, 3)), radius_z)
       IN  \E k \in 1..Len(back_verts) :
              /\ back_verts[k][3] < centre - RoundDiv(radius_z * 55, 100)
              /\ back_verts[k][3] > centre - radius_z

-----------------------------------------------------------------------------
(* SpecHead: generate_full_head, step by step, on a few landmark lists.     *)

Lm(x, y, z) == [x |-> x, y |-> y, z |-> z]

\* no landmark, one, two, three on a line, a small flat triangle, a wide
\* triangle, a triangle with its corners on and past the border of the image,
\* a small flat square, a small square with one raised corner, and the
\* twelve corners of an outline wide enough to be stitched to the shell
LandmarkSets ==
    {<<>>,
     <<Lm(50, 50, -20)>>,
     <<Lm(45, 50, 0), Lm(55, 50, 0)>>,
     <<Lm(40, 50, 0), Lm(50, 50, 0), Lm(60, 50, 0)>>,
     <<Lm(45, 45, 0), Lm(55, 45, 0), Lm(45, 55, 0)>>,
     <<Lm(10, 20, 0), Lm(90, 20, 0), Lm(50, 80, 0)>>,
     <<Lm(-3, 20, 0), Lm(100, 20, 0), Lm(50, 104, 0)>>,
     <<Lm(45, 45, 0), Lm(55, 45, 0), Lm(45, 55, 0), Lm(55, 55, 0)>>,
     <<Lm(45, 45, 0), Lm(55, 45, 0), Lm(45, 55, 0), Lm(55, 55, -60)>>,
     <<Lm(60, 52, 0), Lm(57, 55, 0), Lm(53, 58, 0), Lm(48, 58, 0), Lm(43, 56, 0),
       Lm(41, 53, 0), Lm(40, 48, 0), Lm(43, 45, 0), Lm(47, 42, 0), Lm(52, 42, 0),
       Lm(57, 44, 0), Lm(59, 47, -30)>>}

Resolutions == {8, 18}

HeadTessellations ==
    {NoTessellation,
     [available |-> TRUE, edges |-> {<<0, 1>>, <<1, 2>>, <<0, 2>>, <<1, 3>>, <<3, 2>>}]}

HeadInit ==
    /\ hpc = "start"
    /\ landmarks \in LandmarkSets
    /\ resolution \in Resolutions
    /\ use_depth \in BOOLEAN
    /\ tessellation \in HeadTessellations
    /\ depth_source = NoDepthSource
    /\ face_points = <<>> /\ face_faces = <<>>
    /\ back_verts = <<>> /\ back_faces = <<>>
    /\ all_verts = <<>> /\ all_faces = <<>>
    /\ stitch_faces = <<>> /\ mesh = NoMesh
    /\ started = <<>> /\ error = "none"
    /\ SkelIdle
    /\ SharedIdle
    /\ ToolIdle
    /\ RigIdle

HeadNext ==
    \/ HeadProject
    \/ HeadTriangulate
    \/ HeadShell
    \/ HeadMerge
    \/ HeadStitch
    \/ HeadDepth
    \/ HeadNeck
    \/ HeadCleanup

SpecHead == HeadInit /\ [][HeadNext]_vars

MeshStages == {"triangulation", "shell", "stitch", "depth", "neck", "cleanup"}

\* C1: with fewer than 3 landmarks generate_full_head fails with InputError,
\* and it does so before any mesh stage (triangulation, shell, stitch, depth,
\* neck, cleanup) has started.
C1_TooFewLandmarksInputError ==
    (Len(landmarks) < 3 /\ hpc \notin {"idle", "start"} /\ "projection" \in Range(started)) =>
        /\ hpc = "failed"
        /\ error = "InputError"
        /\ Range(started) \cap MeshStages = {}

\* all_verts as the merge step left it
MergedVerts == face_points \o back_verts

\* the depth source chosen in step 6 fails inside refine_face_depth: the
\* model does not load, the image is unreadable, the depth map is constant,
\* or an iteration of the per-vertex loop raises
DepthSourceFails ==
    /\ use_depth
    /\ depth_source.outcome # "none"
    /\ \/ depth_source.outcome \in {"load_error", "unreadable"}
       \/ \A r \in 1..Len(depth_source.depth_map) :
             \A c \in 1..Len(depth_source.depth_map[r]) :
                 depth_source.depth_map[r][c] = depth_source.depth_map[1][1]
       \/ depth_source.fail_at \in 0..(Len(face_points) - 1)

\* the mesh generate_full_head returns for the same landmarks, resolution and
\* triangulation when use_depth is False
NoDepthMesh(has_legacy_api) ==
    LET merged_faces == face_faces \o OffsetFaces(back_faces, Len(face_points))
                            \o stitch_faces
        necked == add_neck(MergedVerts, merged_faces, resolution)
    IN  FinishMesh(necked.vertices, necked.faces, has_legacy_api)

\* C4: whenever the depth source fails inside refine_face_depth, the vertices
\* it returns equal its input, and the mesh generate_full_head returns is the
\* one it returns with use_depth = False.
C4_DepthFailureIsPassthrough ==
    DepthSourceFails =>
        /\ hpc = "refined" => all_verts = MergedVerts
        /\ hpc = "done" =>
              mesh = NoDepthMesh("remove_degenerate_faces" \in Range(mesh.ops))

\* a mesh was returned after the third iteration of the per-vertex loop
\* raised, with the first two face vertices already moved in the copy
C4_Witness ==
    /\ hpc = "done"
    /\ DepthSourceFails
    /\ depth_source.outcome = "map"
    /\ depth_source.fail_at = 2
    /\ depth_source.depth_map = <<<<0, 10>>, <<20, 40>>>>
    /\ RefineLoop(MergedVerts, depth_source.depth_map, 0, 40, 2) # MergedVerts
    /\ mesh.kind = "mesh"

-----------------------------------------------------------------------------
(* The order of the calls of cleanup_mesh, read from the calls that ran on  *)
(* the mesh generate_full_head returns: those of cleanup_mesh, then         *)
(* filter_laplacian and fix_normals of step 8.                              *)

\* cleanup_mesh has returned and step 8 is over
Cleaned == hpc = "done" /\ mesh.kind = "mesh"

\* C14: cleanup_mesh removes degenerate triangles, removes duplicate
\* triangles, removes unreferenced vertices, merges vertices and recomputes
\* normals, in this order, a call that trimesh does not have being passed
\* over: the unreferenced vertices are removed before the vertices are merged.
C14_UnreferencedBeforeMerge ==
    Cleaned =>
        LET ops == SubSeq(mesh.ops, 1, Len(mesh.ops) - 2)
        IN  /\ ops \in {<<"remove_degenerate_faces", "remove_duplicate_faces",
                          "remove_unreferenced_vertices", "merge_vertices",
                          "fix_normals">>,
                        <<"remove_unreferenced_vertices", "merge_vertices",
                          "fix_normals">>}
            /\ SubSeq(mesh.ops, Len(mesh.ops) - 1, Len(mesh.ops))
                   = <<"filter_laplacian", "fix_normals">>

\* C14 as stated: degenerate, duplicate, merge, unreferenced, normals
C14_MergeBeforeUnreferenced ==
    Cleaned =>
        SubSeq(mesh.ops, 1, Len(mesh.ops) - 2)
            = <<"remove_degenerate_faces", "remove_duplicate_faces",
                "merge_vertices", "remove_unreferenced_vertices", "fix_normals">>

\* all five calls ran, and the mesh lost vertices to them
C14_Witness ==
    /\ Cleaned
    /\ Len(mesh.ops) = 7
    /\ mesh.ops[1] = "remove_degenerate_faces"
    /\ Len(mesh.vertices) < Len(all_verts)

-----------------------------------------------------------------------------
(* add_neck, step 7.                                                        *)

\* C15: add_neck only appends. The rows of its two arguments are the first
\* rows of its results, the arguments are as they were, and every neck
\* triangle has its three indices among the appended vertices, below the new
\* number of vertices.
C15_NeckOnlyAppends ==
    [][(hpc = "refined" /\ hpc' = "necked") =>
          LET out == add_neck(all_verts, all_faces, resolution)
              n == Len(all_verts)
              m == Len(all_faces)
          IN  /\ all_verts' = out.vertices /\ all_faces' = out.faces
              /\ Len(all_verts') > n /\ Len(all_faces') > m
              /\ SubSeq(all_verts', 1, n) = all_verts
              /\ SubSeq(all_faces', 1, m) = all_faces
              /\ out.arg_vertices = all_verts
              /\ out.arg_faces = all_faces
              /\ \A k \in (m + 1)..Len(all_faces') :
                    \A c \in 1..3 :
                       all_faces'[k][c] \in n..(Len(all_verts') - 1)]_vars

\* a neck under a head of face, shell and stitch triangles
C15_Witness ==
    /\ hpc = "necked"
    /\ stitch_faces # <<>>
    /\ Len(all_verts) = Len(face_points) + Len(back_verts)
                           + (NECK_RINGS + 1) * (Max(16, resolution) + 1)
    /\ Len(all_faces) = Len(face_faces) + Len(back_faces) + Len(stitch_faces)
                           + 2 * NECK_RINGS * Max(16, resolution)

-----------------------------------------------------------------------------
(* The responses of auto_rig_mesh.                                          *)

\* C16: auto_rig_mesh returns no partial asset. A response with a gltf is
\* the success response, sent after the mesh was loaded with vertices and
\* the skeleton, the weights and the gltf were all computed from it; every
\* other response is an error of status 400 or 500 with no gltf field, and
\* a request that ended without all four stages is answered with one.
C16_NoPartialAsset ==
    /\ response.kind \in {"none", "ok", "error"}
    /\ (rpc = "responded") = (response.kind # "none")
    /\ "gltf" \in DOMAIN response => response.kind = "ok"
    /\ response.kind = "ok" =>
          /\ vertices # <<>>
          /\ bones = estimate_skeleton_from_mesh(vertices)
          /\ LET r == compute_skinning_weights(vertices, bones, argsort_ties)
             IN  weights = r.weights /\ bone_names = r.bone_names
          /\ gltf # NoGltf
          /\ response.gltf = gltf
          /\ response.bones = bone_names
    /\ response.kind = "error" =>
          /\ DOMAIN response = {"kind", "status", "error"}
          /\ response.status \in {400, 500}
    /\ (rpc = "responded" /\ (vertices = <<>> \/ bones = <<>> \/ weights = <<>>
                                \/ gltf = NoGltf)) =>
          response.kind = "error"

\* the request failed after the skeleton and the weights were computed
C16_Witness ==
    /\ rpc = "responded"
    /\ response.kind = "error"
    /\ response.status = 500
    /\ weights # <<>>
    /\ gltf = NoGltf

-----------------------------------------------------------------------------
(* filter_large_triangles, as triangulate_face returns its result.          *)

\* C17: every triangle filter_large_triangles returns has its longest edge
\* at most max_edge (0.09 for the topology, 0.08 for Delaunay), also when no
\* triangle of its input passes.
C17_ReturnedEdgesWithinMax ==
    (hpc = "triangulated" /\ "triangulation" \in Range(started)) =>
        \A k \in 1..Len(face_faces) :
            EdgesWithin(face_points, face_faces[k], MAX_EDGE_TOPOLOGY)

-----------------------------------------------------------------------------
(* refine_face_depth, step 6.                                               *)

\* C19: refine_face_depth changes nothing but the z of the first
\* num_face_verts vertices. The x and y of every vertex and every coordinate
\* of the shell vertices are the same in its argument and its result; the
\* argument is left as it was, so that the call that raises part-way hands
\* back the unrefined array; and every pixel it samples is inside the depth
\* map, 0..w-1 by 0..h-1.
C19_OnlyFaceDepthChanges ==
    [][(hpc = "stitched" /\ hpc' = "refined" /\ use_depth) =>
          LET n == Len(all_verts)
              num_face_verts == Len(face_points)
              source == depth_source'
          IN  /\ Len(all_verts') = n
              /\ \A k \in 1..n :
                    /\ all_verts'[k][1] = all_verts[k][1]
                    /\ all_verts'[k][2] = all_verts[k][2]
                    /\ k > num_face_verts => all_verts'[k] = all_verts[k]
              /\ (source.outcome # "map" \/ source.fail_at \in 0..(num_face_verts - 1))
                    => all_verts' = all_verts
              /\ source.outcome = "map" =>
                    LET h == Len(source.depth_map)
                        w == Len(source.depth_map[1])
                    IN  \A k \in 1..Min(num_face_verts, n) :
                           LET pixel == SamplePixel(all_verts[k][1], all_verts[k][2], w, h)
                           IN  pixel[1] \in 0..(w - 1) /\ pixel[2] \in 0..(h - 1)]_vars

\* a refined head: the z of a face vertex moved, and a face vertex past the
\* right border of the image was sampled at the last column
C19_Witness ==
    /\ hpc = "refined"
    /\ use_depth
    /\ depth_source.outcome = "map"
    /\ depth_source.fail_at = -1
    /\ \E k \in 1..Len(face_points) : all_verts[k][3] # face_points[k][3]
    /\ \E k \in 1..Len(face_points) :
          LET w == Len(depth_source.depth_map[1])
          IN  /\ 2 * all_verts[k][1] + X_SCALE >= 2 * X_SCALE
              /\ SamplePixel(all_verts[k][1], all_verts[k][2], w,
                             Len(depth_source.depth_map))[1] = w - 1

-----------------------------------------------------------------------------
(* SpecProject: step 1 of generate_full_head on every array of up to MaxLms *)
(* landmarks of a grid that reaches the border of the image and passes it.  *)

MaxLms == 2

LmGrid == {Lm(x, y, z) : x \in {-3, 0, 50, 77, 100}, y \in {0, 33, 104}, z \in {0, -20}}

ProjectInit ==
    /\ hpc = "start"
    /\ \E n \in 1..MaxLms : landmarks \in [1..n -> LmGrid]
    /\ resolution = 0 /\ use_depth = FALSE
    /\ depth_source = NoDepthSource /\ tessellation = NoTessellation
    /\ face_points = <<>> /\ face_faces = <<>>
    /\ back_verts = <<>> /\ back_faces = <<>>
    /\ all_verts = <<>> /\ all_faces = <<>>
    /\ stitch_faces = <<>> /\ mesh = NoMesh
    /\ started = <<>> /\ error = "none"
    /\ SkelIdle
    /\ SharedIdle
    /\ ToolIdle
    /\ RigIdle

SpecProject == ProjectInit /\ [][HeadProject]_vars

\* C20: the mapping refine_face_depth inverts with is the inverse, in x and
\* in y, of the one the landmarks are projected with: from the projected
\* (x, y) of every landmark it gives the landmark's own lm.x and lm.y, with
\* X_SCALE, Y_SCALE and Y_OFFSET of the projection. Landmarks are in
\* hundredths of the image.
C20_InverseOfProjection ==
    hpc = "projected" =>
        /\ Len(face_points) = Len(landmarks)
        /\ \A k \in 1..Len(landmarks) :
              LET lm == InverseMapping(face_points[k][1], face_points[k][2])
              IN  /\ landmarks[k].x * lm.x.den = 100 * lm.x.num
                  /\ landmarks[k].y * lm.y.den = 100 * lm.y.num

\* two projected landmarks, one off the centre inside the image and one past
\* its border
C20_Witness ==
    /\ hpc = "projected"
    /\ Len(landmarks) = 2
    /\ landmarks[1].x = 77 /\ landmarks[1].y = 33
    /\ landmarks[2].x = -3 /\ landmarks[2].y = 104
    /\ face_points[1][1] # 0

-----------------------------------------------------------------------------
(* SpecShared: two requests in one process. Each runs generate_full_head on *)
(* its landmarks and then estimate_skeleton_from_mesh,                      *)
(* compute_skinning_weights and build_rigged_gltf on its mesh; a step of    *)
(* the process is one stage of one request. What they share is `process`:  *)
(* the module-level HUMANOID_SKELETON and FACEMESH_TESSELATION, which every *)
(* stage reads as it finds them, and the numpy and trimesh builds.          *)

\* generate_full_head(face_landmarks, use_depth=False, resolution): the
\* meshes it can return, or the exception it raises
generate_full_head(lms, res, tess, ties, has_legacy_api) ==
    IF Len(lms) = 0 THEN {[kind |-> "raised", error |-> "ValueError"]}
    ELSE LET pts == ProjectLandmarks(lms)
             shell == generate_back_shell(pts, res)
             merged_verts == pts \o shell.vertices
             stitched == stitch_face_to_back(pts, shell.vertices, Len(pts), ties)
             finish(face) ==
                 LET merged_faces == face \o OffsetFaces(shell.faces, Len(pts))
                     necked == add_neck(merged_verts, merged_faces \o stitched, res)
                 IN  FinishMesh(necked.vertices, necked.faces, has_legacy_api)
         IN  {IF tri.raised # "none" THEN [kind |-> "raised", error |-> tri.raised]
              ELSE finish(tri.faces) : tri \in triangulate_face(pts, tess)}

\* a table whose first entry a call overwrote with the ratios of its own mesh
TableScaledInPlace(table, vs) ==
    [table EXCEPT ![1].pos_ratio = <<Len(vs), Len(vs), Len(vs)>>]

\* HUMANOID_SKELETON after a call of estimate_skeleton_from_mesh: the call
\* reads bone_def["pos_ratio"] and bone_def["parent"] and stores into neither
TableAfterEstimate(table, vs) == table

Requests == {1, 2}

\* the arguments of a request: landmarks and resolution of the head, and the
\* vertices and faces of the mesh to rig
RequestArgs ==
    {[landmarks |-> <<Lm(45, 45, 0), Lm(55, 45, 0), Lm(45, 55, 0)>>,
      resolution |-> 8,
      vertices |-> <<<<0, 0, 0>>, <<10, 20, 4>>, <<5, 9, 2>>>>,
      faces |-> <<<<0, 1, 2>>>>],
     [landmarks |-> <<Lm(45, 45, 0), Lm(55, 45, 0), Lm(45, 55, 0), Lm(55, 55, -60)>>,
      resolution |-> 8,
      vertices |-> <<<<10, 20, 4>>, <<5, 9, 2>>>>,
      faces |-> <<>>]}

Processes ==
    [HUMANOID_SKELETON : {HUMANOID_SKELETON},
     FACEMESH_TESSELATION : HeadTessellations,
     argsort_ties : {"low", "high"},
     has_legacy_api : BOOLEAN]

\* what the request with arguments `args` gets when it runs alone in `p`
Alone(args, p) ==
    LET bs == EstimateFromTable(p.HUMANOID_SKELETON, args.vertices)
        sk == compute_skinning_weights(args.vertices, bs, p.argsort_ties)
    IN  [meshes |-> generate_full_head(args.landmarks, args.resolution,
                                       p.FACEMESH_TESSELATION, p.argsort_ties,
                                       p.has_legacy_api),
         bones |-> bs,
         weights |-> sk.weights,
         bone_names |-> sk.bone_names,
         gltf |-> build_rigged_gltf(args.vertices, args.faces, bs, sk.weights,
                                    sk.bone_names, VertexNormals(args.vertices),
                                    p.argsort_ties)]

SharedInit ==
    /\ process \in Processes
    /\ \E args \in [Requests -> RequestArgs] :
          reqs = [r \in Requests |->
                     [pc |-> "head", args |-> args[r], given |-> args[r],
                      alone |-> Alone(args[r], process),
                      mesh |-> NoMesh, bones |-> <<>>, weights |-> <<>>,
                      bone_names |-> <<>>, gltf |-> NoGltf]]
    /\ SkelIdle
    /\ RigIdle
    /\ HeadIdle
    /\ ToolIdle

ReqHead(r) ==
    /\ reqs[r].pc = "head"
    /\ \E m \in generate_full_head(reqs[r].args.landmarks, reqs[r].args.resolution,
                                   process.FACEMESH_TESSELATION, process.argsort_ties,
                                   process.has_legacy_api) :
          reqs' = [reqs EXCEPT ![r].mesh = m, ![r].pc = "skeleton"]
    /\ UNCHANGED <<process, skVars, rigVars, headVars, toolVars>>

ReqSkeleton(r) ==
    /\ reqs[r].pc = "skeleton"
    /\ reqs' = [reqs EXCEPT
                   ![r].bones = EstimateFromTable(process.HUMANOID_SKELETON,
                                                  reqs[r].args.vertices),
                   ![r].pc = "weights"]
    /\ process' = [process EXCEPT
                      !.HUMANOID_SKELETON = TableAfterEstimate(@, reqs[r].args.vertices)]
    /\ UNCHANGED <<skVars, rigVars, headVars, toolVars>>

ReqWeights(r) ==
    /\ reqs[r].pc = "weights"
    /\ LET sk == compute_skinning_weights(reqs[r].args.vertices, reqs[r].bones,
                                          process.argsort_ties)
       IN  reqs' = [reqs EXCEPT ![r].weights = sk.weights,
                                ![r].bone_names = sk.bone_names,
                                ![r].pc = "gltf"]
    /\ UNCHANGED <<process, skVars, rigVars, headVars, toolVars>>

ReqGltf(r) ==
    /\ reqs[r].pc = "gltf"
    /\ reqs' = [reqs EXCEPT
                   ![r].gltf = build_rigged_gltf(reqs[r].args.vertices, reqs[r].args.faces,
                                                 reqs[r].bones, reqs[r].weights,
                                                 reqs[r].bone_names,
                                                 VertexNormals(reqs[r].args.vertices),
                                                 process.argsort_ties),
                   ![r].pc = "done"]
    /\ UNCHANGED <<process, skVars, rigVars, headVars, toolVars>>

SharedNext ==
    \E r \in Requests :
        \/ ReqHead(r)
        \/ ReqSkeleton(r)
        \/ ReqWeights(r)
        \/ ReqGltf(r)

SpecShared == SharedInit /\ [][SharedNext]_vars

-----------------------------------------------------------------------------
(* The order of the steps of generate_full_head.                            *)

\* C21: generate_full_head runs projection, triangulation, shell, merge,
\* stitch, depth refinement (with use_depth only), neck and cleanup, once
\* each and in this order. The stitch triangles are those of the positions
\* before the depth refinement, and the neck is built from the refined head
\* and appended after it: no neck vertex is depth-refined.
C21_StagesInOrder ==
    hpc # "idle" =>
        LET order == <<"projection", "triangulation", "shell", "merge", "stitch">>
                        \o (IF use_depth THEN <<"depth">> ELSE <<>>)
                        \o <<"neck", "cleanup">>
            n == Len(face_points) + Len(back_verts)
        IN  /\ Len(started) <= Len(order)
            /\ started = SubSeq(order, 1, Len(started))
            /\ hpc = "done" => started = order
            /\ hpc \in {"stitched", "refined", "necked", "done"} =>
                  stitch_faces \in {stitch_face_to_back(face_points, back_verts,
                                                        Len(face_points), ties) :
                                       ties \in {"low", "high"}}
            /\ hpc \in {"necked", "done"} =>
                  all_verts = add_neck(SubSeq(all_verts, 1, n), <<>>, resolution).vertices

\* a head returned with use_depth: stitched, then refined by a depth map
\* that moved a face vertex, then given its neck
C21_Witness ==
    /\ hpc = "done"
    /\ use_depth
    /\ Len(started) = 8
    /\ stitch_faces # <<>>
    /\ \E k \in 1..Len(face_points) : all_verts[k][3] # face_points[k][3]

-----------------------------------------------------------------------------
(* The accumulated arrays all_verts and all_faces of generate_full_head.    *)

\* C22: after the merge, after the stitch and after the neck every index of
\* all_faces is smaller than the number of rows of all_verts. The shell
\* faces are the shell's own faces plus the number of face points, and the
\* neck faces begin at the number of vertices there were before the neck.
C22_AccumulatedIndicesValid ==
    hpc \in {"merged", "stitched", "refined", "necked", "done"} =>
        LET num_face_verts == Len(face_points)
            head == num_face_verts + Len(back_verts)
            m == Len(face_faces) + Len(back_faces)
                    + (IF hpc = "merged" THEN 0 ELSE Len(stitch_faces))
        IN  /\ \A k \in 1..Len(all_faces) : \A c \in 1..3 :
                  all_faces[k][c] \in 0..(Len(all_verts) - 1)
            /\ Len(all_faces) >= m
            /\ \A k \in 1..Len(back_faces) : \A c \in 1..3 :
                  all_faces[Len(face_faces) + k][c] = back_faces[k][c] + num_face_verts
            /\ hpc \in {"necked", "done"} =>
                  /\ Len(all_faces) > m
                  /\ all_faces[m + 1][1] = head
                  /\ \A k \in (m + 1)..Len(all_faces) : \A c \in 1..3 :
                        all_faces[k][c] >= head
            /\ hpc \notin {"necked", "done"} =>
                  Len(all_faces) = m /\ Len(all_verts) = head

\* a stitched head whose faces reach the last shell vertex
C22_Witness ==
    /\ hpc = "stitched"
    /\ face_faces # <<>>
    /\ stitch_faces # <<>>
    /\ \E k \in 1..Len(all_faces) : all_faces[k][3] = Len(all_verts) - 1

-----------------------------------------------------------------------------
(* The strategy triangulate_face returns the result of.                     *)

\* C23: triangulate_face returns the topology's triangles only when the
\* topology is available and more of them than the threshold pass the edge
\* filter; when it is not available, or that many or fewer pass, none
\* included, it returns the edge-filtered Delaunay triangulation of the
\* (x, y) of the points. The threshold of 500 is MIN_TOPOLOGY_FACES here.
C23_TopologyOnlyWhenEnoughPass ==
    (hpc = "triangulated" /\ "triangulation" \in Range(started)) =>
        LET topology == build_triangles_from_tessellation(tessellation.edges)
            passing == SelectSeq(topology,
                           LAMBDA f : EdgesWithin(face_points, f, MAX_EDGE_TOPOLOGY))
            fallback == {filter_large_triangles(face_points, simplices,
                                                MAX_EDGE_DELAUNAY).faces :
                            simplices \in Delaunay(face_points)}
        IN  IF tessellation.available /\ Len(passing) > MIN_TOPOLOGY_FACES
            THEN face_faces = passing
            ELSE face_faces \in fallback

-----------------------------------------------------------------------------
(* SpecTess: build_triangles_from_tessellation on every set of edges drawn  *)
(* from a pool over four vertices holding each undirected edge, four of     *)
(* them in both directions, and two self-loops.                             *)

TessPool == {<<0, 1>>, <<1, 0>>, <<1, 2>>, <<2, 1>>, <<2, 0>>, <<0, 2>>,
             <<0, 3>>, <<3, 1>>, <<1, 3>>, <<2, 3>>, <<1, 1>>, <<3, 3>>}

TessInit ==
    /\ hpc = "topology"
    /\ \E edges \in SUBSET TessPool :
          tessellation = [available |-> TRUE, edges |-> edges]
    /\ landmarks = <<>> /\ resolution = 0 /\ use_depth = FALSE
    /\ depth_source = NoDepthSource
    /\ face_points = <<>> /\ face_faces = <<>>
    /\ back_verts = <<>> /\ back_faces = <<>>
    /\ all_verts = <<>> /\ all_faces = <<>>
    /\ stitch_faces = <<>> /\ mesh = NoMesh
    /\ started = <<>> /\ error = "none"
    /\ SkelIdle
    /\ SharedIdle
    /\ ToolIdle
    /\ RigIdle

\* faces = build_triangles_from_tessellation(FACEMESH_TESSELATION)
HeadTopology ==
    /\ hpc = "topology"
    /\ face_faces' = build_triangles_from_tessellation(tessellation.edges)
    /\ hpc' = "topology_built"
    /\ UNCHANGED <<landmarks, resolution, use_depth, depth_source, tessellation,
                   face_points, back_verts, back_faces, all_verts, all_faces,
                   stitch_faces, mesh, started, error>>
    /\ UNCHANGED <<toolVars, sharedVars, skVars, rigVars>>

SpecTess == TessInit /\ [][HeadTopology]_vars

\* a and b are joined by an edge of the set, in either direction
Connected(edges, a, b) == <<a, b>> \in edges \/ <<b, a>> \in edges

\* the vertices the edges of the set mention
EdgeVertices(edges) == {e[1] : e \in edges} \cup {e[2] : e \in edges}

\* the 3-cliques of the undirected graph of the edges, as ascending triples
Cliques3(edges) ==
    LET V == EdgeVertices(edges)
    IN  {t \in V \X V \X V :
            /\ t[1] < t[2] /\ t[2] < t[3]
            /\ Connected(edges, t[1], t[2])
            /\ Connected(edges, t[2], t[3])
            /\ Connected(edges, t[1], t[3])}

\* C24: the triangles build_triangles_from_tessellation returns are exactly
\* the 3-cliques of the undirected graph of the edges, each once and as an
\* ascending triple of three different vertices, whatever the direction of
\* the edges, with both directions of an edge or self-loops in the set.
C24_TrianglesAreThe3Cliques ==
    hpc = "topology_built" =>
        /\ Range(face_faces) = Cliques3(tessellation.edges)
        /\ Cardinality(Range(face_faces)) = Len(face_faces)
        /\ \A i \in 1..Len(face_faces) :
              face_faces[i][1] < face_faces[i][2] /\ face_faces[i][2] < face_faces[i][3]

\* C24 witness: a set with a self-loop, an edge in both directions and an
\* edge given high vertex first, that has two triangles
C24_Witness ==
    /\ hpc = "topology_built"
    /\ <<1, 1>> \in tessellation.edges
    /\ {<<0, 1>>, <<1, 0>>, <<3, 1>>} \subseteq tessellation.edges
    /\ Len(face_faces) >= 2
    /\ C24_TrianglesAreThe3Cliques
-----------------------------------------------------------------------------
\* C25: for every resolution the shell has (lat_steps + 1) * (lon_steps + 1)
\* vertices and 2 * lat_steps * lon_steps triangles, with
\* lat_steps = max(8, resolution div 2) and lon_steps = max(16, resolution);
\* every face index is one of the shell's own vertices and no triangle has
\* a vertex twice.
C25_ShellGridCounts ==
    Shelled =>
        LET lat_steps == IF resolution \div 2 > 8 THEN resolution \div 2 ELSE 8
            lon_steps == IF resolution > 16 THEN resolution ELSE 16
        IN  /\ Len(back_verts) = (lat_steps + 1) * (lon_steps + 1)
            /\ Len(back_faces) = 2 * lat_steps * lon_steps
            /\ \A i \in 1..Len(back_faces) :
                  /\ \A c \in 1..3 : back_faces[i][c] \in 0..(Len(back_verts) - 1)
                  /\ back_faces[i][1] # back_faces[i][2]
                  /\ back_faces[i][2] # back_faces[i][3]
                  /\ back_faces[i][1] # back_faces[i][3]

\* C25 witness: a shell for an odd resolution above both minimums, whose
\* last triangle ends at the last vertex
C25_Witness ==
    /\ Shelled
    /\ resolution = 19
    /\ Len(back_verts) = 200
    /\ Len(back_faces) = 342
    /\ back_faces[342][3] = 199
-----------------------------------------------------------------------------
(* SpecJoints: build_rigged_gltf called with a weights array of its         *)
(* caller's, for a mesh of two vertices and the first n bones of its        *)
(* skeleton.  A row is what compute_skinning_weights gives for some         *)
(* max_influences: no weight negative, all zero or summing to 1; up to      *)
(* MaxBones of them are nonzero, so more than the 4 slots can hold.         *)

JointVerts == << <<0, 0, 0>>, <<10, 20, 4>> >>

\* the weights a row is made of: 0, 0.1, 0.2, 0.3, 0.4, 0.6, 1
WeightLevels == {t * (WOne \div 10) : t \in {0, 1, 2, 3, 4, 6, 10}}

WeightRows(n) ==
    {row \in [1..n -> WeightLevels] : SumSeq(row) \in {0, 10 * (WOne \div 10)}}

JointsInit ==
    /\ rpc = "weighted"
    /\ entry = "direct"
    /\ vertices = JointVerts
    /\ faces = <<>>
    /\ normals = <<>>
    /\ \E n \in 0..MaxBones :
          /\ bones = SubSeq(estimate_skeleton_from_mesh(JointVerts), 1, n)
          /\ bone_names = [b \in 1..n |-> HUMANOID_SKELETON[b].name]
          /\ \E row \in WeightRows(n) :
                weights = <<row, [b \in 1..n |-> row[n + 1 - b]]>>
    /\ gltf = NoGltf /\ response = NoResponse
    /\ argsort_ties \in {"low", "high"}
    /\ SkelIdle
    /\ SharedIdle
    /\ ToolIdle
    /\ HeadIdle

SpecJoints == JointsInit /\ [][RigBuildGltf]_vars

\* the numbers of component type t packed into the buffer, in order
Packed(g, t) ==
    LET data == g.buffers[1].data
        IsT(item) == item.t = t
        items == SelectSeq(data, IsT)
    IN  [i \in 1..Len(items) |-> items[i].v]

\* the 4 joint indices and the 4 joint weights serialized for the 1-based
\* vertex v: the only uint16 of the buffer, and the floats that follow the
\* positions and the normals
SerializedJoints(g, v) == SubSeq(Packed(g, "u16"), 4 * v - 3, 4 * v)
SerializedWeights(g, v) ==
    LET num_verts == g.accessors[1].count
    IN  SubSeq(Packed(g, "f32"), 6 * num_verts + 4 * v - 3, 6 * num_verts + 4 * v)

\* the slots of vertex v hold its nonzero-weight bones by descending weight,
\* cut to 4, each smaller than the bone count; the slots left over hold
\* index 0 and weight 0; the weights sum to 1 up to the rounding of the four
\* divisions, or are all zero for a vertex without a nonzero weight
JointSlotsRight(g, row, v) ==
    LET J == SerializedJoints(g, v)
        W == SerializedWeights(g, v)
        nonzero == {b \in 0..(Len(row) - 1) : row[b + 1] # 0}
        used == IF Cardinality(nonzero) < 4 THEN Cardinality(nonzero) ELSE 4
    IN  /\ Len(J) = 4 /\ Len(W) = 4
        /\ \A j \in 1..used : J[j] \in nonzero /\ J[j] < Len(row)
        /\ \A i, j \in 1..used : i # j => J[i] # J[j]
        /\ \A j \in 1..(used - 1) : row[J[j] + 1] >= row[J[j + 1] + 1] /\ W[j] >= W[j + 1]
        /\ \A b \in nonzero :
              (\A j \in 1..used : J[j] # b) => row[b + 1] <= row[J[used] + 1]
        /\ \A j \in (used + 1)..4 : J[j] = 0 /\ W[j] = 0
        /\ used = 0 => \A j \in 1..4 : W[j] = 0
        /\ used > 0 => Abs(SumSeq(W) - F32One) <= 4

-----------------------------------------------------------------------------
\* the distances of the 1-based vertex v to the bones, as
\* compute_skinning_weights measures them
BoneDistances(v) ==
    Array([b \in 1..Len(bones) |-> Distance(vertices[v], bones[b].position)])

\* the bones vertex v has a nonzero weight for
Influences(v) == {b \in 1..Len(bones) : weights[v][b] # 0}

\* C27: every vertex has a nonzero weight for exactly min(4, B) bones, none
\* of them farther than a bone it has weight zero for; the nonzero weights
\* are to each other as the values 1/max(distance, 1e-6), up to the rounding
\* of the division by their sum; of two selected bones the nearer never has
\* the smaller weight.
C27_NearestBonesInverseDistance ==
    WeightsComputed =>
        \A v \in 1..Len(weights) :
            LET d == BoneDistances(v)
                row == weights[v]
                S == Influences(v)
            IN  /\ Cardinality(S) = IF Len(bones) < 4 THEN Len(bones) ELSE 4
                /\ \A b \in S : \A c \in (1..Len(bones)) \ S : d[b] <= d[c]
                /\ \A b \in S : \A c \in S :
                      /\ d[b] < d[c] => row[b] >= row[c]
                      /\ Abs(row[b] * InvDist(d[c]) - row[c] * InvDist(d[b]))
                            <= Max(InvDist(d[b]), InvDist(d[c]))

\* C27 witness: the 23 bones and a vertex lying on one of them, which has
\* the clamped distance and the largest of the vertex's four nonzero
\* weights, two of the others differing
C27_Witness ==
    /\ WeightsComputed
    /\ Len(bones) = 23
    /\ \E v \in 1..Len(weights) :
          /\ Cardinality(Influences(v)) = 4
          /\ \E b \in Influences(v) :
                /\ BoneDistances(v)[b] = 0
                /\ \A c \in Influences(v) \ {b} : weights[v][b] > weights[v][c]
          /\ \E b, c \in Influences(v) : 0 < weights[v][b] /\ weights[v][b] < weights[v][c]
                                         /\ BoneDistances(v)[c] > 0
    /\ C27_NearestBonesInverseDistance
-----------------------------------------------------------------------------
\* the bones of the two sides of the body, left first
MirrorPairs ==
    {<<"LeftShoulder", "RightShoulder">>, <<"LeftArm", "RightArm">>,
     <<"LeftForeArm", "RightForeArm">>, <<"LeftHand", "RightHand">>,
     <<"LeftUpLeg", "RightUpLeg">>, <<"LeftLeg", "RightLeg">>,
     <<"LeftFoot", "RightFoot">>, <<"LeftToeBase", "RightToeBase">>}

\* the bones of the middle of the body
CentreBones == {"Hips", "Spine", "Spine1", "Spine2", "Neck", "Head", "HeadTop_End"}

\* a skeleton has been estimated for the mesh in `vertices`
SkeletonEstimated == Len(bones) > 0 /\ Len(vertices) > 0

\* the position, in 1e-6 units, at the fractions `percent` of the bounding
\* box of the mesh
AtFractions(percent) ==
    [k \in 1..3 |-> 100 * BboxMin(vertices)[k]
                    + (BboxMax(vertices)[k] - BboxMin(vertices)[k]) * percent[k]]

\* C28: every bone is at bbox_min + ratio * bbox_size for the ratio the
\* table gives its name, inside the bounding box; Hips at (50%, 45%, 50%),
\* HeadTop_End at height 98%; every bone is of the middle or of a
\* Left/Right pair, and the two bones of a pair have widths that are
\* mirror images in the box and the same height and depth.
C28_BonesAtTableFractions ==
    SkeletonEstimated =>
        /\ \A b \in 1..Len(bones) :
              /\ \E t \in 1..Len(HUMANOID_SKELETON) :
                    /\ HUMANOID_SKELETON[t].name = bones[b].name
                    /\ bones[b].position = AtFractions(HUMANOID_SKELETON[t].pos_ratio)
              /\ \A k \in 1..3 :
                    /\ 100 * BboxMin(vertices)[k] <= bones[b].position[k]
                    /\ bones[b].position[k] <= 100 * BboxMax(vertices)[k]
              /\ \/ bones[b].name \in CentreBones
                 \/ \E p \in MirrorPairs : bones[b].name \in {p[1], p[2]}
              /\ bones[b].name = "Hips" => bones[b].position = AtFractions(<<50, 45, 50>>)
              /\ bones[b].name = "HeadTop_End" =>
                    bones[b].position[2] = AtFractions(<<50, 98, 50>>)[2]
        /\ \A l, r \in 1..Len(bones) :
              <<bones[l].name, bones[r].name>> \in MirrorPairs =>
                  /\ bones[l].position[1] + bones[r].position[1]
                        = 100 * (BboxMin(vertices)[1] + BboxMax(vertices)[1])
                  /\ bones[l].position[2] = bones[r].position[2]
                  /\ bones[l].position[3] = bones[r].position[3]
        /\ Len(bones) = Len(HUMANOID_SKELETON) =>
              \A p \in MirrorPairs : InBones(bones, p[1]) /\ InBones(bones, p[2])

\* C28 witness: the 23 bones of a mesh whose bounding box does not start at
\* the origin and has a size in every direction, the two hands on different
\* sides of it
C28_Witness ==
    /\ SkeletonEstimated
    /\ Len(bones) = 23
    /\ \A k \in 1..3 : 0 < BboxMin(vertices)[k] /\ BboxMin(vertices)[k] < BboxMax(vertices)[k]
    /\ BoneByName(bones, "RightHand").position[1] < BoneByName(bones, "LeftHand").position[1]
    /\ C28_BonesAtTableFractions
-----------------------------------------------------------------------------
(* rigging.py: external_rigging_tool and its three strategies.  What a      *)
(* strategy meets (an installed program or library, a file it can read) is  *)
(* the environment's and the file's, fixed for one call.                    *)

\* os.path.splitext(glb_path)[1] of the files a caller passes
Extensions == {".glb", ".GLB", ".gltf", ".obj", ".ply", ".fbx", ".stl", ""}

\* ext.lower()
Lower(ext) == IF ext = ".GLB" THEN ".glb" ELSE ext

SUPPORTED_EXTENSIONS == {".glb", ".gltf", ".obj", ".ply", ".fbx"}
GLTF_EXTENSIONS == {".glb", ".gltf"}

\* rig_with_blender: no blender on the path; RIGGING_SUCCESS in stdout; not
\* in stdout; TimeoutExpired or FileNotFoundError (caught); another
\* exception of open or subprocess.run (not caught)
BlenderCases == {"not_found", "success", "failed", "timeout", "raises"}

\* rig_with_gltf_injection: pygltflib not installed; the skin is injected and
\* saved; the file has no meshes; no node has a mesh; load or save raises
InjectionCases == {"not_installed", "success", "no_meshes", "no_mesh_node", "raises"}

\* _rig_with_trimesh: trimesh not installed; the mesh is exported; a scene
\* without geometry; not a Trimesh; load or export raises
TrimeshCases == {"not_installed", "success", "empty_scene", "not_a_mesh", "raises"}

Returned(strategy) ==
    [kind |-> "return", rigged_path |-> "_rigged.glb", bone_map |-> "BONE_MAP",
     by |-> strategy]
Raised(exc, message) == [kind |-> "raise", exc |-> exc, message |-> message]
NoneNone == [kind |-> "return", rigged_path |-> "None", bone_map |-> "None", by |-> "none"]

\* rig_with_blender(input_path, output_path)
rig_with_blender(env) ==
    CASE env.blender = "success" -> Returned("blender")
      [] env.blender = "raises" -> Raised("OSError", "")
      [] OTHER -> NoneNone

\* _rig_with_trimesh(input_path, output_path)
rig_with_trimesh(env) ==
    CASE env.trimesh = "success" -> Returned("trimesh")
      [] env.trimesh = "not_installed" -> Raised("ImportError", "")
      [] env.trimesh = "raises" -> Raised("Exception", "")
      [] OTHER -> NoneNone

(* The inverse bind matrices of rig_with_gltf_injection.  A matrix is a     *)
(* sequence of 4 rows of 4 entries; the translations (column 4 of rows 1 to *)
(* 3) are in hundredths like the offsets of MIXAMO_SKELETON, the other      *)
(* entries are plain numbers.                                               *)

\* np.eye(4)
Eye4 == [r \in 1..4 |-> [c \in 1..4 |-> IF r = c THEN 1 ELSE 0]]

\* local = np.eye(4); local[0, 3], local[1, 3], local[2, 3] = offset
LocalTransform(offset) ==
    [r \in 1..4 |-> [c \in 1..4 |-> IF c = 4 /\ r <= 3 THEN offset[r] ELSE Eye4[r][c]]]

\* a @ b
MatMul(a, b) ==
    [r \in 1..4 |-> [c \in 1..4 |->
        a[r][1] * b[1][c] + a[r][2] * b[2][c] + a[r][3] * b[3][c] + a[r][4] * b[4][c]]]

\* world_transforms[i] for the 0-based bone i
RECURSIVE WorldTransform(_)
WorldTransform(i) ==
    LET local == LocalTransform(MIXAMO_SKELETON[i + 1][3])
        parent_idx == MIXAMO_SKELETON[i + 1][2]
    IN  IF parent_idx >= 0 THEN MatMul(WorldTransform(parent_idx), local) ELSE local

\* np.linalg.inv(world) of a world transform, which is a translation: the
\* translation by the opposite vector
InvTranslation(world) ==
    [r \in 1..4 |-> [c \in 1..4 |-> IF c = 4 /\ r <= 3 THEN 0 - world[r][4] ELSE world[r][c]]]

\* m.T
Transpose(m) == [r \in 1..4 |-> [c \in 1..4 |-> m[c][r]]]

\* m.tobytes() and m.flatten(): the rows of m one after the other
RowsInOrder(m) == m[1] \o m[2] \o m[3] \o m[4]

\* ibm_data: for each bone the 16 floats of ibm.T.tobytes()
InjectedIbmData ==
    Array([i \in 1..Len(MIXAMO_SKELETON) |->
              RowsInOrder(Transpose(InvTranslation(WorldTransform(i - 1))))])

\* what a successful injection returns, with the matrices it saved in the file
Injected == [kind |-> "return", rigged_path |-> "_rigged.glb", bone_map |-> "BONE_MAP",
             by |-> "gltf_injection", ibm_data |-> InjectedIbmData]

\* rig_with_gltf_injection(input_path, output_path)
rig_with_gltf_injection(env) ==
    CASE env.pygltflib = "not_installed" -> rig_with_trimesh(env)
      [] env.pygltflib = "success" -> Injected
      [] env.pygltflib = "raises" -> Raised("Exception", "")
      [] OTHER -> NoneNone

ToolInit ==
    /\ xpc = "start"
    /\ glb_path \in [exists : BOOLEAN, ext : Extensions]
    /\ installed \in [blender : BlenderCases, pygltflib : InjectionCases,
                      trimesh : TrimeshCases]
    /\ tried = <<>>
    /\ outcome = NoOutcome
    /\ SkelIdle
    /\ RigIdle
    /\ HeadIdle
    /\ SharedIdle

\* `if not os.path.exists(glb_path)` and `if ext not in [...]`
ToolReject ==
    /\ xpc = "start"
    /\ ~glb_path.exists \/ Lower(glb_path.ext) \notin SUPPORTED_EXTENSIONS
    /\ outcome' = IF ~glb_path.exists
                  THEN Raised("ValueError", "Input file not found")
                  ELSE Raised("ValueError", "Unsupported file format")
    /\ xpc' = "raised"
    /\ UNCHANGED <<glb_path, installed, tried>>
    /\ UNCHANGED <<sharedVars, skVars, rigVars, headVars>>

\* the step after a strategy that has given `result`
AfterStrategy(result, next) ==
    /\ outcome' = IF result = NoneNone THEN outcome ELSE result
    /\ xpc' = IF result = NoneNone THEN next
              ELSE IF result.kind = "return" THEN "returned" ELSE "raised"

\* Strategy 1: result_path, bone_map = rig_with_blender(glb_path, rigged_path)
ToolBlender ==
    /\ xpc = "start"
    /\ glb_path.exists /\ Lower(glb_path.ext) \in SUPPORTED_EXTENSIONS
    /\ tried' = Append(tried, "blender")
    /\ AfterStrategy(rig_with_blender(installed),
                     IF Lower(glb_path.ext) \in GLTF_EXTENSIONS
                     THEN "injection" ELSE "fallback")
    /\ UNCHANGED <<glb_path, installed>>
    /\ UNCHANGED <<sharedVars, skVars, rigVars, headVars>>

\* Strategy 2: result_path, bone_map = rig_with_gltf_injection(glb_path, rigged_path)
ToolInjection ==
    /\ xpc = "injection"
    /\ tried' = Append(tried, "gltf_injection")
    /\ AfterStrategy(rig_with_gltf_injection(installed), "fallback")
    /\ UNCHANGED <<glb_path, installed>>
    /\ UNCHANGED <<sharedVars, skVars, rigVars, headVars>>

\* Strategy 3: result_path, bone_map = _rig_with_trimesh(glb_path, rigged_path)
ToolTrimesh ==
    /\ xpc = "fallback"
    /\ tried' = Append(tried, "trimesh")
    /\ AfterStrategy(rig_with_trimesh(installed), "failed")
    /\ UNCHANGED <<glb_path, installed>>
    /\ UNCHANGED <<sharedVars, skVars, rigVars, headVars>>

\* raise ValueError("All rigging strategies failed")
ToolAllFailed ==
    /\ xpc = "failed"
    /\ outcome' = Raised("ValueError", "All rigging strategies failed")
    /\ xpc' = "raised"
    /\ UNCHANGED <<glb_path, installed, tried>>
    /\ UNCHANGED <<sharedVars, skVars, rigVars, headVars>>

ToolNext ==
    \/ ToolReject
    \/ ToolBlender
    \/ ToolInjection
    \/ ToolTrimesh
    \/ ToolAllFailed

SpecTool == ToolInit /\ [][ToolNext]_vars /\ WF_vars(ToolNext)

\* the call has ended
ToolDone == xpc \in {"returned", "raised"}

\* s is <<"blender", "gltf_injection", "trimesh">> with strategies left out
InStrategyOrder(s) ==
    LET rank(x) == CASE x = "blender" -> 1 [] x = "gltf_injection" -> 2 [] OTHER -> 3
    IN  \A i, j \in 1..Len(s) : i < j => rank(s[i]) < rank(s[j])

\* C29: a missing file or an unsupported extension ends the call with
\* ValueError and no strategy called; otherwise Blender is called first,
\* GLTF injection after it for .glb and .gltf only, the trimesh fallback
\* last; a strategy is called only when those before it have not succeeded,
\* what is returned is the pair of the strategy called last; every call
\* ends, returning (rigged_path, bone_map) or raising ValueError.
C29_StrategiesInOrderOrValueError ==
    /\ [](/\ InStrategyOrder(tried)
          /\ (glb_path.exists /\ Lower(glb_path.ext) \in SUPPORTED_EXTENSIONS /\ xpc # "start")
                => (tried # <<>> /\ tried[1] = "blender")
          /\ (\E i \in 1..Len(tried) : tried[i] = "gltf_injection")
                => Lower(glb_path.ext) \in GLTF_EXTENSIONS
          /\ ToolDone =>
                /\ (~glb_path.exists \/ Lower(glb_path.ext) \notin SUPPORTED_EXTENSIONS)
                      => (tried = <<>> /\ outcome.kind = "raise" /\ outcome.exc = "ValueError")
                /\ outcome.kind = "return" =>
                      /\ outcome.rigged_path = "_rigged.glb" /\ outcome.bone_map = "BONE_MAP"
                      /\ tried # <<>>
                      /\ outcome.by = tried[Len(tried)]
                         \/ (outcome.by = "trimesh" /\ tried[Len(tried)] = "gltf_injection"
                             /\ installed.pygltflib = "not_installed")
                /\ outcome.kind = "raise" => outcome.exc = "ValueError")
    /\ <>ToolDone
-----------------------------------------------------------------------------
(* SpecIbm: the two serializers of inverse bind matrices, build_rigged_gltf *)
(* for a mesh of two vertices and the first n bones of its skeleton, and    *)
(* rig_with_gltf_injection called by external_rigging_tool for a .glb or    *)
(* .gltf file that Blender has not rigged.                                  *)

IbmInit ==
    /\ rpc = "weighted"
    /\ entry = "direct"
    /\ vertices = JointVerts
    /\ faces = <<>>
    /\ normals = <<>>
    /\ argsort_ties \in {"low", "high"}
    /\ \E n \in 1..MaxBones :
          LET bs == SubSeq(estimate_skeleton_from_mesh(JointVerts), 1, n)
              r == compute_skinning_weights(JointVerts, bs, argsort_ties)
          IN  /\ bones = bs
              /\ weights = r.weights
              /\ bone_names = r.bone_names
    /\ gltf = NoGltf /\ response = NoResponse
    /\ xpc = "injection"
    /\ glb_path \in [exists : {TRUE}, ext : {".glb", ".GLB", ".gltf"}]
    /\ installed \in [blender : {"not_found", "failed", "timeout"},
                      pygltflib : InjectionCases, trimesh : TrimeshCases]
    /\ tried = <<"blender">>
    /\ outcome = NoOutcome
    /\ SkelIdle
    /\ SharedIdle
    /\ HeadIdle

IbmNext ==
    \/ RigBuildGltf
    \/ ToolInjection

SpecIbm == IbmInit /\ [][IbmNext]_vars

\* the 16 floats build_rigged_gltf has stored for the 1-based bone i: they
\* follow the positions, the normals and the joint weights
StoredIbm(g, i) ==
    LET num_verts == g.accessors[1].count
    IN  SubSeq(Packed(g, "f32"), 10 * num_verts + 16 * i - 15, 10 * num_verts + 16 * i)

\* the translation of the world transform of the 0-based Mixamo bone i: the
\* sum of the offsets from the bone up to the root
RECURSIVE WorldOffset(_)
WorldOffset(i) ==
    LET offset == MIXAMO_SKELETON[i + 1][3]
        parent_idx == MIXAMO_SKELETON[i + 1][2]
    IN  IF parent_idx < 0 THEN offset
        ELSE [k \in 1..3 |-> WorldOffset(parent_idx)[k] + offset[k]]

\* C30: both serializers store a bone's inverse translation (tx, ty, tz) at
\* the flat positions 12, 13, 14 of the bone's 16 floats, the column-major
\* order: build_rigged_gltf the opposite of the bone's position,
\* rig_with_gltf_injection the opposite of the bone's world offset.
C30_TranslationAtFlat12To14 ==
    /\ (rpc = "built" /\ Built) =>
          \A i \in 1..Len(bone_names) :
              \A k \in 1..3 :
                  StoredIbm(gltf, i)[12 + k] = 0 - BoneByName(bones, bone_names[i]).position[k]
    /\ (outcome.kind = "return" /\ outcome.by = "gltf_injection") =>
          \A i \in 1..Len(MIXAMO_SKELETON) :
              \A k \in 1..3 :
                  outcome.ibm_data[i][12 + k] = 0 - WorldOffset(i - 1)[k]
=============================================================================
